---- MODULE Spec2Model ----
(***************************************************************************)
(* Multi-judge evaluation orchestration of youngouk/chat_eval.             *)
(*                                                                         *)
(* The model covers the ProviderFactory (the provider registry and its     *)
(* selection policy), BaseProvider.evaluateWithRetry with the providers'   *)
(* evaluate(), and EvaluationOrchestrator.evaluateChat with its parallel   *)
(* dispatch and score consolidation.                                       *)
(*                                                                         *)
(* Numbers: scores are integers in tenths (4.6 is 46); a temperature is in *)
(* tenths as well.  A mean is kept as the exact fraction [num, den].       *)
(* Korean keys of the source are romanised: eopmu (work ability), munjang  *)
(* (writing), taedo (basic attitude), chongjeom (total, ConsolidatedResult)*)
(***************************************************************************)
EXTENDS Integers, Sequences, FiniteSets, TLC

VARIABLES
    modelConfig,   \* what ConfigManager.getModelConfig() returns (models.json)
    env,           \* the environment variables that are set (process.env)
    providers,     \* ProviderFactory.providers: Map in insertion order, <<[name, config]>>
    initPc,        \* position of initializeProviders: "idle", "awaiting", "done", "failed"
    initCfg,       \* its local modelConfig.providers snapshot
    initIdx,       \* index of the entry whose validateProvider is awaited
    initPending,   \* whether that validateProvider call resolved (TRUE) or rejected
    lastSelect,    \* outcome of the latest getProvidersForEvaluation call
    pc,            \* position of evaluateChat: "idle", "dispatched", "returned", "raised"
    calls,         \* per selected index: the evaluateWithRetry call of that provider
    settled,       \* indices of the evaluation promises in the order they settled
    results,       \* executeParallelEvaluations' results array
    outcome,       \* what evaluateChat returned or raised
    deadlineElapsed, \* whether the request's options.timeout has elapsed since dispatch
    detector,      \* an OutlierDetector: its config, the caller's sample, what its calls returned
    service,       \* MultiLLMEvaluationService: isInitialized and the calls in progress on it
    batch,         \* one evaluateChatsBatch call: its locals, its workers, its promise
    configManager  \* ConfigManager: criteria, lastUpdate, the criteria files, the last call

regVars  == <<modelConfig, env, providers, initPc, initCfg, initIdx, initPending, lastSelect>>
evalVars == <<pc, calls, settled, results, outcome, deadlineElapsed>>
auxVars  == <<detector, service, batch, configManager>>
vars     == <<modelConfig, env, providers, initPc, initCfg, initIdx, initPending,
              lastSelect, pc, calls, settled, results, outcome, deadlineElapsed,
              detector, service, batch, configManager>>

Null == [none |-> TRUE]

\* the versions getEvaluationCriteria is asked for: criteria-v1.0.json, criteria-v2.0.json
Versions == {"1.0", "2.0"}

\* a criteria file: whether it exists, its mtime, whether JSON.parse accepts it
CriteriaFile(exists, mtime, valid) == [exists |-> exists, mtime |-> mtime, valid |-> valid]

\* new ConfigManager(): criteria = null, lastUpdate empty (0: no entry); the
\* criteria files as they are found
NewConfigManager(files) ==
    [criteria |-> Null, lastUpdate |-> [v \in Versions |-> 0], files |-> files, returned |-> Null]

\* most calls in progress on the service at once
MaxCallers == 2
Callers == 1..MaxCallers

\* a call on the service that has not started
NewCaller == [op |-> "none", pc |-> "new", idx |-> 0, pending |-> FALSE, selection |-> Null]

\* new MultiLLMEvaluationService(): isInitialized = false
NewService == [isInitialized |-> FALSE, initRuns |-> 0, callers |-> [c \in Callers |-> NewCaller]]

-----------------------------------------------------------------------------
(* Bounds of the explored inputs *)

\* largest evaluation_mode.min_providers a configuration file carries
MaxMinProviders == 3
\* largest retry.max_attempts a provider configuration carries
MaxAttempts == 2

-----------------------------------------------------------------------------
(* Configuration: models.json and process.env *)

\* the keys of modelConfig.providers, in file order (Object.entries order)
ConfigOrder == <<"openai", "gemini", "gemini-25">>

ConfigNames == {ConfigOrder[i] : i \in 1..Len(ConfigOrder)}

\* the provider names createProvider knows
KnownProviders == {"openai", "openai-gpt5", "gemini", "gemini-25"}

EnvKeys == {"OPENAI_API_KEY", "GOOGLE_AI_API_KEY"}

\* convertToProviderConfig's retry.max_attempts
DefaultMaxAttempts == 3
\* convertToProviderConfig's temperature 0.1, in tenths
DefaultTemperature == 1
\* convertToProviderConfig's max_tokens
DefaultMaxTokens == 4000
\* validateProvider's upper limit of the temperature, 2, in tenths
MaxTemperature == 20

ProviderConfig(enabled, model, temperature, max_tokens, max_attempts) ==
    [enabled |-> enabled, model |-> model, temperature |-> temperature,
     max_tokens |-> max_tokens, max_attempts |-> max_attempts]

GoodConfig(ma) == ProviderConfig(TRUE, TRUE, DefaultTemperature, DefaultMaxTokens, ma)

\* the provider configurations a models.json entry is drawn from: a valid one,
\* a disabled one, and enabled ones that fail one check of validateProvider
RegistryConfigChoices ==
    { GoodConfig(DefaultMaxAttempts),
      ProviderConfig(FALSE, TRUE, DefaultTemperature, DefaultMaxTokens, DefaultMaxAttempts),
      ProviderConfig(TRUE, TRUE, MaxTemperature + 5, DefaultMaxTokens, DefaultMaxAttempts) }

EvaluationModes ==
    [multi_llm : BOOLEAN, min_providers : 0..MaxMinProviders, fallback_to_single : BOOLEAN]

-----------------------------------------------------------------------------
(* ProviderFactory *)

\* createProvider: FALSE stands for the throw of the default branch
createProvider(name) == name \in KnownProviders

\* a validateProvider that checks the settings and not the API key
validateProviderNoKeyCheck(name, config, environment) ==
    /\ config.model
    /\ config.temperature >= 0 /\ config.temperature <= MaxTemperature
    /\ config.max_tokens > 0

\* validateProvider: TRUE when it returns, FALSE when it throws
validateProvider(name, config, environment) ==
    /\ config.model
    /\ config.temperature >= 0 /\ config.temperature <= MaxTemperature
    /\ config.max_tokens > 0
    /\ (name \in {"openai", "openai-gpt5"} => "OPENAI_API_KEY" \in environment)
    /\ (name \in {"gemini", "gemini-25"} => "GOOGLE_AI_API_KEY" \in environment)

\* Map.set: a new key is appended, an existing key keeps its place
MapSet(map, name, config) ==
    IF \E i \in 1..Len(map) : map[i].name = name
    THEN [i \in 1..Len(map) |->
             IF map[i].name = name THEN [name |-> name, config |-> config] ELSE map[i]]
    ELSE Append(map, [name |-> name, config |-> config])

\* the for loop of initializeProviders runs synchronously over disabled entries
\* (and entries createProvider rejects) up to the next entry it has to await
NextAwaited(cfg, from) ==
    LET S == {i \in from..Len(ConfigOrder) :
                 cfg[ConfigOrder[i]].enabled /\ createProvider(ConfigOrder[i])}
    IN IF S = {} THEN Len(ConfigOrder) + 1
       ELSE CHOOSE i \in S : \A j \in S : i <= j

\* the end of initializeProviders: providers.size === 0 throws
InitEndPc(map) == IF Len(map) = 0 THEN "failed" ELSE "done"

\* initializeProviders up to its first await: snapshot, clear, loop
InitializeProviders_Begin ==
    /\ initPc # "awaiting"
    /\ pc = "idle"
    /\ LET cfg == modelConfig.providers
           j == NextAwaited(cfg, 1)
       IN /\ initCfg' = cfg
          /\ providers' = <<>>
          /\ IF j > Len(ConfigOrder)
             THEN /\ initPc' = InitEndPc(<<>>)
                  /\ initIdx' = 0
                  /\ initPending' = FALSE
             ELSE /\ initPc' = "awaiting"
                  /\ initIdx' = j
                  /\ initPending' = validateProvider(ConfigOrder[j], cfg[ConfigOrder[j]], env)
    /\ lastSelect' = Null
    /\ UNCHANGED <<modelConfig, env>>
    /\ UNCHANGED evalVars
    /\ UNCHANGED auxVars

\* initializeProviders from one await to the next, or to its end
InitializeProviders_Resume ==
    /\ initPc = "awaiting"
    /\ LET name == ConfigOrder[initIdx]
           map == IF initPending THEN MapSet(providers, name, initCfg[name]) ELSE providers
           j == NextAwaited(initCfg, initIdx + 1)
       IN /\ providers' = map
          /\ IF j > Len(ConfigOrder)
             THEN /\ initPc' = InitEndPc(map)
                  /\ initIdx' = 0
                  /\ initPending' = FALSE
             ELSE /\ initPc' = "awaiting"
                  /\ initIdx' = j
                  /\ initPending' = validateProvider(ConfigOrder[j], initCfg[ConfigOrder[j]], env)
    /\ lastSelect' = Null
    /\ UNCHANGED <<modelConfig, env, initCfg>>
    /\ UNCHANGED evalVars
    /\ UNCHANGED auxVars

\* getActiveProviders: the registered providers whose config.enabled is set
getActiveProviders(map) == SelectSeq(map, LAMBDA e : e.config.enabled)

isMultiLLMAvailable(cfg, map) ==
    /\ cfg.evaluation_mode.multi_llm
    /\ Len(getActiveProviders(map)) >= cfg.evaluation_mode.min_providers

\* Array.prototype.slice(0, n) for an integer n >= 0
SliceFrom0(s, n) == SubSeq(s, 1, IF n < Len(s) THEN n ELSE Len(s))

Selected(list) == [status |-> "ok", list |-> list]
SelectError(message) == [status |-> "error", message |-> message]

\* getProvidersForEvaluation: the selected providers, or the error it throws
getProvidersForEvaluation(cfg, map) ==
    LET activeProviders == getActiveProviders(map)
    IN IF Len(activeProviders) = 0 THEN SelectError("no provider available")
       ELSE IF isMultiLLMAvailable(cfg, map)
            THEN Selected(SliceFrom0(activeProviders, cfg.evaluation_mode.min_providers))
       ELSE IF cfg.evaluation_mode.fallback_to_single
            THEN Selected(<<activeProviders[1]>>)
       ELSE SelectError("multi requirements unmet, fallback disabled")

\* a call of ProviderFactory.getProvidersForEvaluation on the current registry
GetProvidersForEvaluation ==
    /\ lastSelect' = getProvidersForEvaluation(modelConfig, providers)
    /\ UNCHANGED <<modelConfig, env, providers, initPc, initCfg, initIdx, initPending>>
    /\ UNCHANGED evalVars
    /\ UNCHANGED auxVars

\* models.json is edited: one provider entry is replaced
EditProviderConfig ==
    /\ \E name \in ConfigNames, c \in RegistryConfigChoices :
          /\ modelConfig.providers[name] # c
          /\ modelConfig' = [modelConfig EXCEPT !.providers[name] = c]
    /\ lastSelect' = Null
    /\ UNCHANGED <<env, providers, initPc, initCfg, initIdx, initPending>>
    /\ UNCHANGED evalVars
    /\ UNCHANGED auxVars

\* models.json is edited: the evaluation mode is replaced
EditEvaluationMode ==
    /\ \E m \in EvaluationModes :
          /\ modelConfig.evaluation_mode # m
          /\ modelConfig' = [modelConfig EXCEPT !.evaluation_mode = m]
    /\ lastSelect' = Null
    /\ UNCHANGED <<env, providers, initPc, initCfg, initIdx, initPending>>
    /\ UNCHANGED evalVars
    /\ UNCHANGED auxVars

-----------------------------------------------------------------------------
(* The registry on its own: configuration edits, (re)initialisation, selection *)

InitEval ==
    /\ pc = "idle"
    /\ calls = <<>>
    /\ settled = <<>>
    /\ results = <<>>
    /\ outcome = Null
    /\ deadlineElapsed = FALSE
    /\ detector = Null
    /\ service = NewService
    /\ batch = Null
    /\ configManager = NewConfigManager([v \in Versions |-> CriteriaFile(TRUE, 1, TRUE)])

InitRegistry ==
    /\ modelConfig \in [providers : [ConfigNames -> RegistryConfigChoices],
                        evaluation_mode : EvaluationModes]
    /\ env \in SUBSET EnvKeys
    /\ providers = <<>>
    /\ initPc = "idle"
    /\ initCfg = Null
    /\ initIdx = 0
    /\ initPending = FALSE
    /\ lastSelect = Null
    /\ InitEval

NextRegistry ==
    \/ InitializeProviders_Begin
    \/ InitializeProviders_Resume
    \/ GetProvidersForEvaluation
    \/ EditProviderConfig
    \/ EditEvaluationMode

SpecRegistry == InitRegistry /\ [][NextRegistry]_vars

-----------------------------------------------------------------------------
(* Provider clients: evaluate() and BaseProvider.evaluateWithRetry *)

\* BaseProvider.isRetryableError's networkErrors keywords
NetworkErrors == {"network", "timeout", "connect", "econnreset", "enotfound", "econnrefused"}

\* GeminiProvider.isRetryableError's geminiRetryableErrors keywords
GeminiRetryableErrors ==
    {"quota exceeded", "rate limit", "service unavailable", "model overloaded",
     "safety filter", "recitation"}

\* Gemini25Provider.isRetryableError's gemini25RetryableErrors keywords
Gemini25RetryableErrors ==
    GeminiRetryableErrors \cup {"model not found", "resource exhausted", "temporarily unavailable"}

\* An Error object: status is its status/statusCode property (0: it has none),
\* words the keywords its lower-cased message contains.  httpStatus is the status
\* the endpoint answered (0: no answer); it is part of the message text only.
ErrorObject(status, httpStatus, words) ==
    [status |-> status, httpStatus |-> httpStatus, words |-> words]

\* what callAPI throws: `new Error("... API error: ${response.status} - ${errorText}")`
\* for an answer that is not ok, and fetch's own error for a transport failure
HttpError(httpStatus, bodyWords) == ErrorObject(0, httpStatus, bodyWords)
TransportError(words) == ErrorObject(0, 0, words)

\* the failures of callAPI that are explored: 500 "Internal Server Error",
\* 429 "Rate limit reached", 408 "Request Timeout", 400 "Bad Request",
\* "read ECONNRESET" and "fetch failed"
ApiFailures ==
    { HttpError(500, {}), HttpError(429, {"rate limit"}), HttpError(408, {"timeout"}),
      HttpError(400, {}), TransportError({"econnreset"}), TransportError({}) }

\* evaluate()'s own `throw new Error("... API key is not set")`
MissingKeyError == ErrorObject(0, 0, {"api key not set"})

\* BaseProvider.handleError: `new Error(context + ": " + message)`, which keeps
\* the message text and none of the properties of the error it wraps
handleError(error, context) ==
    [status |-> 0, httpStatus |-> error.httpStatus, words |-> error.words, context |-> context]

\* BaseProvider.isRetryableError
BaseIsRetryableError(error) ==
    IF error.status # 0 /\ error.status >= 400 /\ error.status < 500
    THEN error.status = 429 \/ error.status = 408
    ELSE IF error.status # 0 /\ error.status >= 500
    THEN TRUE
    ELSE error.words \cap NetworkErrors # {}

\* isRetryableError as the provider class of `name` overrides it
isRetryableError(name, error) ==
    \/ BaseIsRetryableError(error)
    \/ name = "gemini" /\ error.words \cap GeminiRetryableErrors # {}
    \/ name = "gemini-25" /\ error.words \cap Gemini25RetryableErrors # {}

\* the environment variable evaluate() of provider `name` reads
ApiKeyOf(name) == IF name \in {"openai", "openai-gpt5"} THEN "OPENAI_API_KEY"
                  ELSE "GOOGLE_AI_API_KEY"

ScoreSections == {"eopmu", "munjang", "taedo"}
ScoreKeys == ScoreSections \cup {"total_score"}

\* validateScoreRange: 1.0 and 5.0 in tenths
MinScore == 10
MaxScore == 50
\* the 3.0 of getDefaultResult and of consolidateResults' `|| 3.0`, in tenths
DefaultScore == 30

\* the evidence object of an answer or of an EvaluationResult
Evidence(positive, negative, quotes) ==
    [positive |-> positive, negative |-> negative, quotes |-> quotes]

\* an answer without an evidence object
NoEvidence == [none |-> TRUE]

\* The text a provider endpoint answers with: whether JSON.parse accepts it and,
\* per section, whether it is there and its subtotal; total_score likewise; and
\* its evidence object.
Response(parses, eopmu, munjang, taedo, total, evidence) ==
    [parses |-> parses,
     evidence |-> evidence,
     sections |-> [k \in ScoreSections |->
                      LET v == CASE k = "eopmu" -> eopmu [] k = "munjang" -> munjang
                                 [] OTHER -> taedo
                      IN [present |-> v # 0, subtotal |-> v]],
     total_score |-> [present |-> total # 0, value |-> total]]

\* the answers explored: two well-formed ones, one whose top-level total_score is
\* 7.0 (and that has no evidence object), one with a subtotal of 7.0, one
\* without a section, one that is no JSON
Responses ==
    { Response(TRUE, 20, 20, 20, 20, Evidence(<<"polite">>, <<"slow">>, <<"thank you">>)),
      Response(TRUE, 40, 40, 40, 40, Evidence(<<"polite", "accurate">>, <<>>, <<"thank you">>)),
      Response(TRUE, 40, 40, 40, 70, NoEvidence),
      Response(TRUE, 70, 40, 40, 40, Evidence(<<"accurate">>, <<"slow">>, <<>>)),
      Response(TRUE, 40, 40, 0, 40, Evidence(<<"polite">>, <<>>, <<>>)),
      Response(FALSE, 0, 0, 0, 0, NoEvidence) }

\* validateScores: TRUE when it returns, FALSE when it throws.  The range check
\* visits the numbers inside the section objects only: the top-level total_score
\* is a number, not an object, and is skipped.
validateScores(response) ==
    /\ \A k \in ScoreSections : response.sections[k].present
    /\ \A k \in ScoreSections :
          response.sections[k].subtotal >= MinScore /\ response.sections[k].subtotal <= MaxScore

\* getDefaultResult(): its scores and its evidence
getDefaultResult ==
    [sections |-> [k \in ScoreSections |-> [present |-> TRUE, subtotal |-> DefaultScore]],
     total_score |-> [present |-> TRUE, value |-> DefaultScore],
     evidence |-> Evidence(<<"basic consultation">>, <<"default applied">>, <<>>)]

\* parseResponse: the parsed scores, or the default result when JSON.parse or
\* validateScores throws
parseResponse(response) ==
    IF response.parses /\ validateScores(response)
    THEN [sections |-> response.sections, total_score |-> response.total_score,
          evidence |-> response.evidence]
    ELSE getDefaultResult

\* evaluate(): `evidence: parsedResult.evidence || { positive: [], ... }`
resultEvidence(parsed) ==
    IF parsed.evidence = NoEvidence THEN Evidence(<<>>, <<>>, <<>>) ELSE parsed.evidence

\* extractScores: the subtotals and the total that are truthy
extractScores(parsed) ==
    LET keys == {k \in ScoreSections :
                     parsed.sections[k].present /\ parsed.sections[k].subtotal # 0}
                \cup (IF parsed.total_score.present /\ parsed.total_score.value # 0
                      THEN {"total_score"} ELSE {})
    IN [k \in keys |-> IF k = "total_score" THEN parsed.total_score.value
                       ELSE parsed.sections[k].subtotal]

NoScores == [k \in {} |-> 0]

NoResponse == [none |-> TRUE]

\* One evaluateWithRetry call inside the closure of executeParallelEvaluations:
\* attempt is the loop variable (the number of evaluate() calls made so far),
\* error the error caught last, response the answer evaluate() parsed, scores
\* what extractScores made of it.
Call(entry, state, attempt, error, scores) ==
    [name |-> entry.name, max_attempts |-> entry.config.max_attempts,
     state |-> state, attempt |-> attempt, error |-> error,
     response |-> NoResponse, scores |-> scores]

NoError == [none |-> TRUE]

Terminal(c) == c.state \in {"Success", "Failed"}

\* evaluateWithRetry up to its first await: the loop is entered when
\* 1 <= max_attempts, else the throw after the loop is reached
StartCall(entry) ==
    IF 1 <= entry.config.max_attempts
    THEN Call(entry, "Attempting", 1, NoError, NoScores)
    ELSE Call(entry, "Failed", 0, handleError(ErrorObject(0, 0, {}), "unexpected error"), NoScores)

\* a catch block that retries whatever the error is
CatchNoClassification(c, error) ==
    IF c.attempt >= c.max_attempts
    THEN [c EXCEPT !.state = "Failed", !.error = handleError(error, "max retries exceeded")]
    ELSE [c EXCEPT !.state = "RetryWait", !.error = error]

\* the catch block of evaluateWithRetry for the error evaluate() threw
Catch(c, error) ==
    IF c.attempt = c.max_attempts
    THEN [c EXCEPT !.state = "Failed", !.error = handleError(error, "max retries exceeded")]
    ELSE IF ~isRetryableError(c.name, error)
    THEN [c EXCEPT !.state = "Failed", !.error = handleError(error, "not retryable")]
    ELSE [c EXCEPT !.state = "RetryWait", !.error = error]

\* the errors evaluate() of provider `name` can throw: handleError of the
\* missing key when the variable is unset, else of a failure of callAPI
EvaluateErrors(name, environment) ==
    IF ApiKeyOf(name) \notin environment
    THEN {handleError(MissingKeyError, "evaluate")}
    ELSE {handleError(e, "evaluate") : e \in ApiFailures}

Settle(i, c) == IF Terminal(c) THEN Append(settled, i) ELSE settled

\* evaluate() returns: the endpoint answered ok with `response`
AttemptSucceeds(i) ==
    /\ pc = "dispatched"
    /\ calls[i].state = "Attempting"
    /\ ApiKeyOf(calls[i].name) \in env
    /\ \E response \in Responses :
          LET c == [calls[i] EXCEPT !.state = "Success",
                                    !.response = response,
                                    !.scores = extractScores(parseResponse(response))]
          IN /\ calls' = [calls EXCEPT ![i] = c]
             /\ settled' = Settle(i, c)
    /\ UNCHANGED <<pc, results, outcome, deadlineElapsed>>
    /\ UNCHANGED regVars
    /\ UNCHANGED auxVars

\* evaluate() throws, and the catch block of evaluateWithRetry runs
AttemptFails(i) ==
    /\ pc = "dispatched"
    /\ calls[i].state = "Attempting"
    /\ \E error \in EvaluateErrors(calls[i].name, env) :
          LET c == Catch(calls[i], error)
          IN /\ calls' = [calls EXCEPT ![i] = c]
             /\ settled' = Settle(i, c)
    /\ UNCHANGED <<pc, results, outcome, deadlineElapsed>>
    /\ UNCHANGED regVars
    /\ UNCHANGED auxVars

\* the backoff delay elapses: the loop goes to its next iteration
RetryDelayElapses(i) ==
    /\ pc = "dispatched"
    /\ calls[i].state = "RetryWait"
    /\ calls' = [calls EXCEPT ![i] = [@ EXCEPT !.state = "Attempting",
                                               !.attempt = @ + 1,
                                               !.error = NoError]]
    /\ UNCHANGED <<pc, settled, results, outcome, deadlineElapsed>>
    /\ UNCHANGED regVars
    /\ UNCHANGED auxVars

-----------------------------------------------------------------------------
(* EvaluationOrchestrator *)

Indices(n) == [i \in 1..n |-> i]

\* JavaScript numbers: a finite score is an integer in tenths; Infinity,
\* -Infinity (what JSON.parse makes of 1e999, -1e999) and NaN are integers far
\* outside every finite value the model computes, in sort order
PositiveInfinity == 1000000000
NegativeInfinity == 0 - 1000000000
NaN == 2000000000

IsFinite(x) == x \notin {PositiveInfinity, NegativeInfinity, NaN}

\* a + b
JsAdd(a, b) ==
    IF a = NaN \/ b = NaN THEN NaN
    ELSE IF IsFinite(a) /\ IsFinite(b) THEN a + b
    ELSE IF IsFinite(a) THEN b
    ELSE IF IsFinite(b) THEN a
    ELSE IF a = b THEN a
    ELSE NaN

\* a - b
JsSub(a, b) ==
    JsAdd(a, IF b = PositiveInfinity THEN NegativeInfinity
             ELSE IF b = NegativeInfinity THEN PositiveInfinity
             ELSE IF b = NaN THEN NaN ELSE 0 - b)

\* k * a for a constant k > 0 (0 * Infinity does not come up: Infinity - x is
\* never 0)
JsScale(k, a) == IF IsFinite(a) THEN k * a ELSE a

\* a <= b: false as soon as one side is NaN
JsLe(a, b) == a # NaN /\ b # NaN /\ a <= b

\* reduce((sum, val) => sum + val, 0)
RECURSIVE SumSeq(_)
SumSeq(s) == IF s = <<>> THEN 0 ELSE JsAdd(Head(s), SumSeq(Tail(s)))

\* Array.prototype.sort((a, b) => a - b)
SortAsc(s) == SortSeq(s, LAMBDA a, b : a < b)

Fraction(num, den) == [num |-> num, den |-> den]

\* sum / n as a number: the exact fraction, or the non-finite sum itself
Quotient(sum, n) == IF IsFinite(sum) THEN Fraction(sum, n) ELSE Fraction(sum, 1)

Raised(message) == [kind |-> "error", message |-> message]

\* a closure that answers a failed call with the default scores as a success
ProviderResultDefaulting(c) ==
    [name |-> c.name,
     scores |-> IF c.state = "Success" THEN c.scores ELSE extractScores(getDefaultResult),
     success |-> TRUE, error |-> NoError]

\* the ProviderResult the closure of executeParallelEvaluations returns
ProviderResult(c) ==
    [name |-> c.name, scores |-> c.scores, success |-> c.state = "Success",
     error |-> IF c.state = "Success" THEN NoError ELSE c.error]

\* results pushed as the calls end, in completion order
BuildResultsInSettledOrder(cs) == [k \in 1..Len(settled) |-> ProviderResult(cs[settled[k]])]

\* settledResults.forEach: Promise.allSettled keeps the order of the promises,
\* all of which are fulfilled (the closure catches every error)
BuildResults(cs) == [i \in 1..Len(cs) |-> ProviderResult(cs[i])]

Successful(rs) == SelectSeq(rs, LAMBDA r : r.success)

\* the sorted values of one score key across the given results
ValuesOf(rs, key) ==
    LET having == SelectSeq(Indices(Len(rs)), LAMBDA i : key \in DOMAIN rs[i].scores)
    IN SortAsc([k \in 1..Len(having) |-> rs[having[k]].scores[key]])

\* a consolidation that averages every value, with no fences
ConsolidateValuesUnfiltered(values) == Quotient(SumSeq(values), Len(values))

\* consolidateScores for the sorted values of one key (at least one value)
ConsolidateValues(values) ==
    LET n == Len(values)
    IN IF n = 1 THEN Fraction(values[1], 1)
       ELSE IF n = 2 THEN Quotient(JsAdd(values[1], values[2]), 2)
       ELSE LET q1 == values[(n \div 4) + 1]
                q3 == values[((3 * n) \div 4) + 1]
                iqr == JsSub(q3, q1)
                \* lowerBound = q1 - 1.5 * iqr and upperBound = q3 + 1.5 * iqr, doubled
                lowerBound2 == JsSub(JsScale(2, q1), JsScale(3, iqr))
                upperBound2 == JsAdd(JsScale(2, q3), JsScale(3, iqr))
                filteredValues == SelectSeq(values, LAMBDA v :
                                      /\ JsLe(lowerBound2, JsScale(2, v))
                                      /\ JsLe(JsScale(2, v), upperBound2))
            IN IF Len(filteredValues) > 0
               THEN Quotient(SumSeq(filteredValues), Len(filteredValues))
               ELSE Fraction(values[(n \div 2) + 1], 1)

consolidateScores(rs) ==
    LET scoreKeys == UNION {DOMAIN rs[i].scores : i \in 1..Len(rs)}
    IN [key \in scoreKeys |-> ConsolidateValues(ValuesOf(rs, key))]

\* `consolidatedScores.key || 3.0`
OrDefault(consolidated, key) ==
    IF key \in DOMAIN consolidated /\ consolidated[key].num \notin {0, NaN}
    THEN consolidated[key]
    ELSE Fraction(DefaultScore, 1)

\* consolidateEvidence: three sets that nothing is added to, as arrays
consolidateEvidence(rs) == Evidence(<<>>, <<>>, <<>>)

\* consolidateResults: the scores, the provider list and the evidence of the
\* ConsolidatedResult, or its throw when no result is successful
consolidateResults(providerResults) ==
    LET successfulResults == Successful(providerResults)
        consolidatedScores == consolidateScores(successfulResults)
    IN IF Len(successfulResults) = 0
       THEN Raised("no successful result to consolidate")
       ELSE
       [kind |-> "result",
        scores |-> [eopmu     |-> OrDefault(consolidatedScores, "eopmu"),
                    munjang   |-> OrDefault(consolidatedScores, "munjang"),
                    taedo     |-> OrDefault(consolidatedScores, "taedo"),
                    chongjeom |-> OrDefault(consolidatedScores, "total_score")],
        providers |-> providerResults,
        evidence |-> consolidateEvidence(successfulResults)]

\* Promise.race-like: resolves as soon as one call has ended
AnySettled(cs) == \E i \in 1..Len(cs) : Terminal(cs[i])

\* Promise.allSettled(evaluationPromises) resolves
AllSettled(cs) == \A i \in 1..Len(cs) : Terminal(cs[i])

\* Promise.all-like: throws as soon as one provider failed
ThrowIfAnyFailed(rs) == Len(Successful(rs)) < Len(rs)

\* executeParallelEvaluations: `if (successfulResults.length === 0) throw`
ThrowIfNoneSucceeded(rs) == Len(Successful(rs)) = 0

\* an EvaluationRequest: the session's messages, the weights (in hundredths) of
\* the three categories of its criteria, and whether options.timeout is given
EvaluationRequest(messages, weights, timeout) ==
    [session |-> [messages |-> messages],
     criteria |-> [eopmu |-> weights[1], munjang |-> weights[2], taedo |-> weights[3]],
     options |-> [timeout |-> timeout]]

\* the explored requests: no message or one; weights that sum to 1.00, 1.01,
\* 0.90 and 1.10; with and without a timeout
Requests ==
    {EvaluationRequest(messages, weights, timeout) :
        messages \in {<<>>, <<"hello">>},
        weights \in {<<40, 30, 30>>, <<40, 30, 31>>, <<40, 30, 20>>, <<50, 30, 30>>},
        timeout \in BOOLEAN}

\* evaluateChat up to the await of Promise.allSettled: the providers are
\* selected and every closure runs to its first await; the request is logged
\* and handed to the closures, none of its fields is examined
EvaluateChat_Start(request) ==
    /\ pc = "idle"
    /\ initPc # "awaiting"
    /\ LET sel == getProvidersForEvaluation(modelConfig, providers)
       IN /\ lastSelect' = sel
          /\ IF sel.status = "error"
             THEN /\ pc' = "raised"
                  /\ outcome' = Raised(sel.message)
                  /\ UNCHANGED <<calls, settled>>
             ELSE IF Len(sel.list) = 0
             THEN /\ pc' = "raised"
                  /\ outcome' = Raised("no evaluation provider available")
                  /\ UNCHANGED <<calls, settled>>
             ELSE /\ pc' = "dispatched"
                  /\ calls' = [i \in 1..Len(sel.list) |-> StartCall(sel.list[i])]
                  /\ settled' = SelectSeq(Indices(Len(sel.list)),
                                          LAMBDA i : Terminal(StartCall(sel.list[i])))
                  /\ UNCHANGED outcome
    /\ UNCHANGED <<results, deadlineElapsed>>
    /\ UNCHANGED <<modelConfig, env, providers, initPc, initCfg, initIdx, initPending>>
    /\ UNCHANGED auxVars

\* evaluateChat from the resolution of Promise.allSettled to its end
EvaluateChat_Finish ==
    /\ pc = "dispatched"
    /\ AllSettled(calls)
    /\ LET rs == BuildResults(calls)
       IN /\ results' = rs
          /\ IF ThrowIfNoneSucceeded(rs)
             THEN /\ pc' = "raised"
                  /\ outcome' = Raised("all providers failed")
             ELSE /\ outcome' = consolidateResults(rs)
                  /\ pc' = IF consolidateResults(rs).kind = "result"
                           THEN "returned" ELSE "raised"
    /\ UNCHANGED <<calls, settled, deadlineElapsed>>
    /\ UNCHANGED regVars
    /\ UNCHANGED auxVars

-----------------------------------------------------------------------------
(* One evaluation request: initialisation, selection, dispatch, consolidation *)

\* models.json of an evaluation run: every provider enabled and well-formed,
\* with the same retry.max_attempts
DispatchProviderConfigs ==
    {[name \in ConfigNames |-> GoodConfig(ma)] : ma \in 0..MaxAttempts}

Init ==
    /\ modelConfig \in [providers : DispatchProviderConfigs,
                        evaluation_mode : EvaluationModes]
    /\ env \in SUBSET EnvKeys
    /\ providers = <<>>
    /\ initPc = "idle"
    /\ initCfg = Null
    /\ initIdx = 0
    /\ initPending = FALSE
    /\ lastSelect = Null
    /\ InitEval

Next ==
    \/ InitializeProviders_Begin
    \/ InitializeProviders_Resume
    \/ \E request \in Requests : EvaluateChat_Start(request)
    \/ \E i \in 1..Len(calls) : AttemptSucceeds(i)
    \/ \E i \in 1..Len(calls) : AttemptFails(i)
    \/ \E i \in 1..Len(calls) : RetryDelayElapses(i)
    \/ EvaluateChat_Finish

Spec == Init /\ [][Next]_vars

-----------------------------------------------------------------------------
(* One evaluation request and the clock of its options.timeout *)

\* the time given in request.options.timeout passes while the evaluations are
\* awaited: nothing in evaluateChat, executeParallelEvaluations or
\* evaluateWithRetry reads the option or holds a timer for it
DeadlineElapses ==
    /\ pc = "dispatched"
    /\ ~deadlineElapsed
    /\ deadlineElapsed' = TRUE
    /\ UNCHANGED <<pc, calls, settled, results, outcome>>
    /\ UNCHANGED regVars
    /\ UNCHANGED auxVars

NextDeadline ==
    \/ InitializeProviders_Begin
    \/ InitializeProviders_Resume
    \/ \E request \in Requests : EvaluateChat_Start(request)
    \/ \E i \in 1..Len(calls) : AttemptSucceeds(i)
    \/ \E i \in 1..Len(calls) : AttemptFails(i)
    \/ \E i \in 1..Len(calls) : RetryDelayElapses(i)
    \/ DeadlineElapses
    \/ EvaluateChat_Finish

\* every credential is set, as where the deadline matters: with providers to wait for
InitDeadline ==
    /\ modelConfig \in [providers : DispatchProviderConfigs,
                        evaluation_mode : EvaluationModes]
    /\ env = EnvKeys
    /\ providers = <<>>
    /\ initPc = "idle"
    /\ initCfg = Null
    /\ initIdx = 0
    /\ initPending = FALSE
    /\ lastSelect = Null
    /\ InitEval

SpecDeadline == InitDeadline /\ [][NextDeadline]_vars

-----------------------------------------------------------------------------
(* Consolidation and the validators as functions of the provider results *)

\* a < b: false as soon as one side is NaN
JsLt(a, b) == a # NaN /\ b # NaN /\ a < b

\* thresholds.json: outlier_detection.multiplier in tenths, and min_samples
OutlierConfig(multiplier, min_samples) ==
    [multiplier |-> multiplier, min_samples |-> min_samples]

\* EvaluationOrchestrator.detectOutliers: the indices, in the sorted array of
\* the total scores and counted from 0, of the scores outside the fences
detectOutliers(rs, multiplier) ==
    IF Len(rs) < 3 THEN <<>>
    ELSE LET totalScores == ValuesOf(rs, "total_score")
             n == Len(totalScores)
         IN IF n < 3 THEN <<>>
            ELSE LET q1 == totalScores[(n \div 4) + 1]
                     q3 == totalScores[((3 * n) \div 4) + 1]
                     iqr == JsSub(q3, q1)
                     \* the fences times 10
                     lowerBound10 == JsSub(JsScale(10, q1), JsScale(multiplier, iqr))
                     upperBound10 == JsAdd(JsScale(10, q3), JsScale(multiplier, iqr))
                     flagged == SelectSeq(Indices(n), LAMBDA i :
                                    \/ JsLt(JsScale(10, totalScores[i]), lowerBound10)
                                    \/ JsLt(upperBound10, JsScale(10, totalScores[i])))
                 IN [k \in 1..Len(flagged) |-> flagged[k] - 1]

\* OutlierDetector.calculateQuartile times 4, for percentile quarters / 4:
\* linear interpolation between the two neighbours of position (n - 1) * p
calculateQuartile4(sortedValues, quarters) ==
    LET n == Len(sortedValues)
        position4 == (n - 1) * quarters
        lowerIndex == position4 \div 4
        fraction4 == position4 % 4
    IN IF fraction4 = 0 THEN JsScale(4, sortedValues[lowerIndex + 1])
       ELSE JsAdd(JsScale(4 - fraction4, sortedValues[lowerIndex + 1]),
                  JsScale(fraction4, sortedValues[lowerIndex + 2]))

\* OutlierDetector.getEmptyResult
getEmptyResult(values) ==
    [outliers |-> <<>>, outlierIndices |-> <<>>, filteredValues |-> values,
     statistics |-> [lowerBound |-> Fraction(0, 1), upperBound |-> Fraction(0, 1)]]

\* OutlierDetector.detectOutliers with this.config.multiplier = multiplier / unit:
\* the outliers, their indices in `values` counted from 0, the values that
\* are left, and the bounds
detectOutliersWith(values, min_samples, multiplier, unit) ==
    IF Len(values) < min_samples THEN getEmptyResult(values)
    ELSE LET sortedValues == SortAsc(values)
             q1x4 == calculateQuartile4(sortedValues, 1)
             q3x4 == calculateQuartile4(sortedValues, 3)
             iqr4 == JsSub(q3x4, q1x4)
             \* the fences times 4 * unit
             lowerBound == JsSub(JsScale(unit, q1x4), JsScale(multiplier, iqr4))
             upperBound == JsAdd(JsScale(unit, q3x4), JsScale(multiplier, iqr4))
             isOutlier(i) == \/ JsLt(JsScale(4 * unit, values[i]), lowerBound)
                             \/ JsLt(upperBound, JsScale(4 * unit, values[i]))
             flagged == SelectSeq(Indices(Len(values)), LAMBDA i : isOutlier(i))
             kept == SelectSeq(Indices(Len(values)), LAMBDA i : ~isOutlier(i))
         IN [outliers |-> [k \in 1..Len(flagged) |-> values[flagged[k]]],
             outlierIndices |-> [k \in 1..Len(flagged) |-> flagged[k] - 1],
             filteredValues |-> [k \in 1..Len(kept) |-> values[kept[k]]],
             statistics |-> [lowerBound |-> Fraction(lowerBound, 4 * unit),
                             upperBound |-> Fraction(upperBound, 4 * unit)]]

\* OutlierDetector.detectOutliers for a multiplier in tenths
\* a detection whose fences are the quartiles themselves, with no margin
OutlierDetector_detectOutliersNoMargin(values, config) ==
    detectOutliersWith(values, config.min_samples, 0, 10)

OutlierDetector_detectOutliers(values, config) ==
    detectOutliersWith(values, config.min_samples, config.multiplier, 10)

\* largest number of provider results a consolidation is given
MaxSampleSize == 5

\* the total scores explored: 1.2, 4.0, 4.1, 4.5, 4.6, and what 1e999 and -1e999
\* in a provider's JSON parse to
SampleValues == {12, 40, 41, 45, 46, PositiveInfinity, NegativeInfinity}

Samples == UNION {[1..n -> SampleValues] : n \in 1..MaxSampleSize}

\* the explored outlier_detection settings: multiplier 1.5, min_samples 3
OutlierConfigs == {OutlierConfig(15, 3)}

\* successful provider results that report the given total scores
SampleResults(sample) ==
    [i \in 1..Len(sample) |->
        [name |-> ConfigOrder[((i - 1) % Len(ConfigOrder)) + 1],
         scores |-> [key \in {"total_score"} |-> sample[i]],
         success |-> TRUE, error |-> NoError]]

\* consolidateResults' calls of consolidateScores and detectOutliers, and the
\* validator's call of OutlierDetector.detectOutliers, on one list of results
ConsolidateSample ==
    /\ pc = "idle"
    /\ outcome = Null
    /\ \E sample \in Samples, config \in OutlierConfigs :
          LET rs == SampleResults(sample)
          IN /\ results' = rs
             /\ outcome' = [kind |-> "consolidated",
                            values |-> sample,
                            config |-> config,
                            consolidated |-> consolidateScores(rs),
                            outliers |-> detectOutliers(rs, config.multiplier),
                            detected |-> OutlierDetector_detectOutliers(sample, config)]
    /\ UNCHANGED <<pc, calls, settled, deadlineElapsed>>
    /\ UNCHANGED regVars
    /\ UNCHANGED auxVars

\* the report of a consistency validation: the consistency as a fraction,
\* isConsistent, and details.overall.status
ConsistencyReport(consistency, isConsistent, status) ==
    [consistency |-> consistency, isConsistent |-> isConsistent, status |-> status]

\* ConsistencyValidator.getSingleProviderResult
getSingleProviderResult == ConsistencyReport(Fraction(1, 1), TRUE, "SINGLE_PROVIDER")

\* ConsistencyValidator.getInsufficientDataResult
getInsufficientDataResult == ConsistencyReport(Fraction(0, 1), FALSE, "INSUFFICIENT_DATA")

\* the report of a measured agreement: status PASS or FAIL; its numbers (made
\* of standard deviations) are not computed here
getMeasuredResult == [status |-> "PASS_OR_FAIL"]

\* ConsistencyValidator.validateConsistency
ConsistencyValidator_validateConsistency(rs) ==
    IF Len(rs) < 2 THEN getSingleProviderResult
    ELSE IF Len(Successful(rs)) < 2 THEN getInsufficientDataResult
    ELSE getMeasuredResult

FractionAdd(a, b) == Fraction(a.num * b.den + b.num * a.den, a.den * b.den)

RECURSIVE SumFractions(_)
SumFractions(fs) == IF fs = <<>> THEN Fraction(0, 1)
                    ELSE FractionAdd(Head(fs), SumFractions(Tail(fs)))

SumOfSquares(values) == SumSeq([k \in 1..Len(values) |-> values[k] * values[k]])

\* the variance of finite values, in squared tenths:
\* sum((v - mean)^2) / n = (n * sum(v^2) - sum(v)^2) / n^2
Variance(values) ==
    LET n == Len(values)
    IN Fraction(n * SumOfSquares(values) - SumSeq(values) * SumSeq(values), n * n)

\* the order in which the score keys are visited
ScoreKeyOrder == <<"eopmu", "munjang", "taedo", "total_score">>

\* EvaluationOrchestrator.validateConsistency, for finite scores: 1 for fewer
\* than two results, else max(0, 1 - averageVariance / 2) with the variance
\* averaged over the keys that two results or more report
validateConsistency(rs) ==
    IF Len(rs) < 2
    THEN [consistency |-> Fraction(1, 1), message |-> "single provider result"]
    ELSE LET compared == SelectSeq(ScoreKeyOrder, LAMBDA key : Len(ValuesOf(rs, key)) >= 2)
             validComparisons == Len(compared)
             totalVariance == SumFractions([k \in 1..validComparisons |->
                                               Variance(ValuesOf(rs, compared[k]))])
             \* averageVariance in squared tenths; a score of 1.0 is 10 tenths
             averageVariance == IF validComparisons > 0
                                THEN Fraction(totalVariance.num,
                                              totalVariance.den * validComparisons)
                                ELSE Fraction(0, 1)
             num == 200 * averageVariance.den - averageVariance.num
         IN [consistency |-> IF num < 0 THEN Fraction(0, 1)
                             ELSE Fraction(num, 200 * averageVariance.den),
             message |-> "measured"]

\* largest number of provider results a consistency validation is given
MaxResults == 3

\* a provider result: a success with a total score, or a failure
ValidatedResults ==
    {[success |-> TRUE, total |-> 40], [success |-> TRUE, total |-> 46],
     [success |-> FALSE, total |-> 0]}

ResultLists == UNION {[1..n -> ValidatedResults] : n \in 0..MaxResults}

\* the ProviderResults of executeParallelEvaluations for the given list
ListResults(list) ==
    [i \in 1..Len(list) |->
        [name |-> ConfigOrder[((i - 1) % Len(ConfigOrder)) + 1],
         scores |-> IF list[i].success
                    THEN [key \in {"total_score"} |-> list[i].total] ELSE NoScores,
         success |-> list[i].success,
         error |-> IF list[i].success THEN NoError
                   ELSE handleError(HttpError(400, {}), "max retries exceeded")]]

\* the validator's call of ConsistencyValidator.validateConsistency on the whole
\* list of results, and consolidateResults' call of validateConsistency on the
\* successful ones
ValidateConsistencyOfList ==
    /\ pc = "idle"
    /\ outcome = Null
    /\ \E list \in ResultLists :
          LET rs == ListResults(list)
          IN /\ results' = rs
             /\ outcome' = [kind |-> "consistency",
                            report |-> ConsistencyValidator_validateConsistency(rs),
                            validation |-> validateConsistency(Successful(rs))]
    /\ UNCHANGED <<pc, calls, settled, deadlineElapsed>>
    /\ UNCHANGED regVars
    /\ UNCHANGED auxVars

\* thresholds.json: confidence.factors, in tenths
ConfidenceFactors(consistency_weight, outlier_weight, sample_size_weight) ==
    [consistency_weight |-> consistency_weight, outlier_weight |-> outlier_weight,
     sample_size_weight |-> sample_size_weight]

Max0(x) == IF x < 0 THEN 0 ELSE x
MinOf2(a, b) == IF a < b THEN a ELSE b

\* Math.min(1, Math.max(0, num / den)) for den > 0
Clamp01(num, den) == Fraction(MinOf2(den, Max0(num)), den)

\* a confidence whose outlier contribution grows with the outlier ratio
calculateConfidenceByOutlierRatio(consistency, outlierCount, totalResults, factors) ==
    Clamp01(3 * totalResults * consistency * factors.consistency_weight
              + 30 * outlierCount * factors.outlier_weight
              + 10 * totalResults * MinOf2(3, totalResults) * factors.sample_size_weight,
            300 * totalResults)

\* EvaluationOrchestrator.calculateConfidence for totalResults >= 1, consistency
\* and weights in tenths:
\*   consistency * w_c + max(0, 1 - outlierCount / totalResults) * w_o
\*     + min(1, totalResults / 3) * w_s, clamped to [0, 1],
\* over the common denominator 300 * totalResults
calculateConfidence(consistency, outlierCount, totalResults, factors) ==
    Clamp01(3 * totalResults * consistency * factors.consistency_weight
              + 30 * Max0(totalResults - outlierCount) * factors.outlier_weight
              + 10 * totalResults * MinOf2(3, totalResults) * factors.sample_size_weight,
            300 * totalResults)

\* ConfidenceCalculator.calculateSampleSizeContribution in thousandths:
\* log2(1 + min(1, totalResults / 5))
calculateSampleSizeContribution(totalResults) ==
    CASE totalResults <= 0 -> 0
      [] totalResults = 1 -> 263
      [] totalResults = 2 -> 485
      [] totalResults = 3 -> 678
      [] totalResults = 4 -> 848
      [] OTHER -> 1000

\* parseFloat(x.toFixed(3)) of num / den, den > 0, in thousandths
ToFixed3(f) == Fraction((2000 * f.num + f.den) \div (2 * f.den), 1000)

\* ConfidenceCalculator.calculateConfidence: its confidence, with `additional`
\* what calculateAdditionalFactors returns, in thousandths.  The outlier ratio
\* is 0 when totalResults is 0.
ConfidenceCalculator_calculateConfidence(consistency, outlierCount, totalResults, factors, additional) ==
    LET t == IF totalResults > 0 THEN totalResults ELSE 1
        kept == IF totalResults > 0 THEN Max0(totalResults - outlierCount) ELSE 1
    IN ToFixed3(Clamp01(100 * t * MinOf2(10, consistency) * factors.consistency_weight
                          + 1000 * kept * factors.outlier_weight
                          + t * calculateSampleSizeContribution(totalResults)
                              * factors.sample_size_weight
                          + 10 * t * additional,
                        10000 * t))

\* the explored consistency values: 0.0, 0.5, 0.8, 1.0, and 1.2
Consistencies == {0, 5, 8, 10, 12}

\* the explored weights: the split 0.5 / 0.3 / 0.2, a heavier and a lighter
\* outlier weight, and no weight at all
FactorChoices ==
    {ConfidenceFactors(5, 3, 2), ConfidenceFactors(2, 10, 2), ConfidenceFactors(7, 1, 4),
     ConfidenceFactors(0, 0, 0)}

\* what calculateAdditionalFactors may return: 0 without factors, up to 0.1
AdditionalChoices == {0, 50, 100}

\* the confidence computed for one consistency, one number of results and one
\* set of weights, by both functions, for every outlier count
CalculateConfidences ==
    /\ pc = "idle"
    /\ outcome = Null
    /\ \E consistency \in Consistencies, totalResults \in 0..MaxSampleSize,
          factors \in FactorChoices, additional \in AdditionalChoices :
          outcome' = [kind |-> "confidence",
                      consistency |-> consistency,
                      totalResults |-> totalResults,
                      factors |-> factors,
                      additional |-> additional,
                      \* consolidateResults passes the successful results' count,
                      \* which is 1 at least
                      orchestrator |->
                          [outlierCount \in (IF totalResults > 0 THEN 0..(totalResults + 1) ELSE {}) |->
                              calculateConfidence(consistency, outlierCount,
                                                  totalResults, factors)],
                      calculator |->
                          [outlierCount \in 0..(totalResults + 1) |->
                              ConfidenceCalculator_calculateConfidence(
                                  consistency, outlierCount, totalResults,
                                  factors, additional)]]
    /\ UNCHANGED <<pc, calls, settled, results, deadlineElapsed>>
    /\ UNCHANGED regVars
    /\ UNCHANGED auxVars

InitValidators ==
    /\ modelConfig = [providers |-> [name \in ConfigNames |-> GoodConfig(DefaultMaxAttempts)],
                      evaluation_mode |-> [multi_llm |-> TRUE, min_providers |-> 1,
                                           fallback_to_single |-> TRUE]]
    /\ env = EnvKeys
    /\ providers = <<>>
    /\ initPc = "idle"
    /\ initCfg = Null
    /\ initIdx = 0
    /\ initPending = FALSE
    /\ lastSelect = Null
    /\ InitEval

NextValidators ==
    \/ ConsolidateSample
    \/ ValidateConsistencyOfList
    \/ CalculateConfidences

SpecValidators == InitValidators /\ [][NextValidators]_vars

-----------------------------------------------------------------------------
(* What the two confidence calculations are given *)

\* EvaluationValidator.performBasicValidation: isValid, with requiredFields
\* the length of thresholds.validation.required_fields
performBasicValidation(rs, requiredFields) ==
    LET minProviders == IF requiredFields = 0 THEN 1 ELSE requiredFields
    IN /\ Len(rs) > 0
       /\ Len(Successful(rs)) > 0
       /\ Len(Successful(rs)) >= minProviders

\* r.scores.total_score || 0 of the given results
TotalScoresOrZero(rs) ==
    [i \in 1..Len(rs) |->
        IF "total_score" \in DOMAIN rs[i].scores THEN rs[i].scores["total_score"] ELSE 0]

\* EvaluationValidator.detectOutliers: the outliers among the successful
\* results' total scores, none for fewer than three of them
EvaluationValidator_detectOutliers(rs, config) ==
    IF Len(Successful(rs)) < 3 THEN <<>>
    ELSE OutlierDetector_detectOutliers(TotalScoresOrZero(Successful(rs)), config).outliers

\* the counts validateEvaluationResults passes to
\* ConfidenceCalculator.calculateConfidence, and the sample-size contribution
\* made of them
EvaluationValidator_confidenceInput(rs, config) ==
    [outlierCount |-> Len(EvaluationValidator_detectOutliers(rs, config)),
     totalResults |-> Len(rs),
     sampleSizeContribution |-> calculateSampleSizeContribution(Len(rs))]

\* the counts consolidateResults passes to calculateConfidence
consolidateResults_confidenceInput(rs, config) ==
    LET successfulResults == Successful(rs)
    IN [outlierCount |-> Len(detectOutliers(successfulResults, config.multiplier)),
        totalResults |-> Len(successfulResults)]

\* the lengths of thresholds.validation.required_fields explored
RequiredFieldCounts == 0..2

\* a provider result: a success with a total score, or a failure
ConfidenceResults == ValidatedResults \cup {[success |-> TRUE, total |-> 12]}

ConfidenceResultLists == UNION {[1..n -> ConfidenceResults] : n \in 0..MaxResults}

\* one list of provider results goes through consolidateResults (when a result
\* succeeded) and through validateEvaluationResults (up to its confidence
\* calculation, when the basic validation passes)
ValidateEvaluationResults ==
    /\ pc = "idle"
    /\ outcome = Null
    /\ detector = Null
    /\ \E list \in ConfidenceResultLists, requiredFields \in RequiredFieldCounts,
          config \in OutlierConfigs :
          LET rs == ListResults(list)
          IN /\ results' = rs
             /\ outcome' = [kind |-> "validation",
                            requiredFields |-> requiredFields,
                            consolidated |-> IF Len(Successful(rs)) = 0 THEN Null
                                             ELSE consolidateResults_confidenceInput(rs, config),
                            validated |-> IF ~performBasicValidation(rs, requiredFields) THEN Null
                                          ELSE EvaluationValidator_confidenceInput(rs, config)]
    /\ UNCHANGED <<pc, calls, settled, deadlineElapsed>>
    /\ UNCHANGED regVars
    /\ UNCHANGED auxVars

NextValidation == ValidateEvaluationResults

SpecValidation == InitValidators /\ [][NextValidation]_vars

-----------------------------------------------------------------------------
(* One OutlierDetector object and the calls made on it *)

\* this.config.multiplier of the detector object is kept in ten-thousandths:
\* 1.5 * 1.2 * 1.1 * 1.1 = 2.1780
MultiplierUnit == 10000

\* what analyzeDistribution finds, as far as calculateAdaptedMultiplier reads
\* it: |skewness| > 1.0, |kurtosis| > 2.0, isNormal.  The moments themselves
\* are not computed; every combination they allow is explored.
Distributions ==
    {d \in [skewed : BOOLEAN, heavyTailed : BOOLEAN, isNormal : BOOLEAN] :
        d.isNormal => (~d.skewed /\ ~d.heavyTailed)}

\* OutlierDetector.calculateAdaptedMultiplier
calculateAdaptedMultiplier(config, distribution) ==
    LET m1 == IF distribution.skewed THEN (config.multiplier * 12) \div 10
              ELSE config.multiplier
        m2 == IF distribution.heavyTailed THEN (m1 * 11) \div 10 ELSE m1
        m3 == IF ~distribution.isNormal THEN (m2 * 11) \div 10 ELSE m2
    IN IF m3 > 3 * MultiplierUnit THEN 3 * MultiplierUnit
       ELSE IF m3 < MultiplierUnit THEN MultiplierUnit ELSE m3

\* an adaptive detection that leaves the adapted multiplier in the config
adaptiveOutlierDetectionNoRestore(values, config, distribution) ==
    IF Len(values) < config.min_samples
    THEN [config |-> config, baseResult |-> getEmptyResult(values),
          adaptedResult |-> getEmptyResult(values), adaptedMultiplier |-> config.multiplier]
    ELSE LET adapted == [config EXCEPT !.multiplier = calculateAdaptedMultiplier(config, distribution)]
         IN [config |-> adapted,
             baseResult |-> detectOutliersWith(values, config.min_samples, config.multiplier, MultiplierUnit),
             adaptedResult |-> detectOutliersWith(values, adapted.min_samples, adapted.multiplier, MultiplierUnit),
             adaptedMultiplier |-> adapted.multiplier]

\* OutlierDetector.adaptiveOutlierDetection: what it returns, and this.config
\* when it returns.  The function runs without a suspension point: the
\* multiplier is set, detectOutliers runs, the multiplier is set back.
adaptiveOutlierDetection(values, config, distribution) ==
    IF Len(values) < config.min_samples
    THEN [config |-> config, baseResult |-> getEmptyResult(values),
          adaptedResult |-> getEmptyResult(values), adaptedMultiplier |-> config.multiplier]
    ELSE LET originalMultiplier == config.multiplier
             adapted == [config EXCEPT !.multiplier = calculateAdaptedMultiplier(config, distribution)]
             restored == [adapted EXCEPT !.multiplier = originalMultiplier]
         IN [config |-> restored,
             baseResult |-> detectOutliersWith(values, config.min_samples, config.multiplier, MultiplierUnit),
             adaptedResult |-> detectOutliersWith(values, adapted.min_samples, adapted.multiplier, MultiplierUnit),
             adaptedMultiplier |-> adapted.multiplier]

\* OutlierDetector.detectMultiSeriesOutliers: detectOutliers per series, and the
\* indices flagged in half of the series or more
detectMultiSeriesOutliers(seriesData, config) ==
    LET seriesOutliers == [name \in DOMAIN seriesData |->
                              detectOutliersWith(seriesData[name], config.min_samples,
                                                 config.multiplier, MultiplierUnit)]
        outlierCounts(index) ==
            Cardinality({name \in DOMAIN seriesData :
                \E k \in DOMAIN seriesOutliers[name].outlierIndices :
                    seriesOutliers[name].outlierIndices[k] = index})
        seriesCount == Cardinality(DOMAIN seriesData)
        threshold == (seriesCount + 1) \div 2
    IN [seriesOutliers |-> seriesOutliers,
        consistentOutliers |-> {index \in 0..(MaxSampleSize + 1) :
                                   outlierCounts(index) >= 1 /\ outlierCounts(index) >= threshold}]

\* the samples a detector is given: 1.2, 4.0 and 4.6 in every arrangement
DetectorSamples == UNION {[1..n -> {12, 40, 46}] : n \in 1..MaxSampleSize}

\* most detectOutliers calls made on one detector, and most other calls
MaxRuns == 2
MaxOtherCalls == 1

\* new OutlierDetector(config), and the sample its caller holds
Detector_New ==
    /\ detector = Null
    /\ pc = "idle"
    /\ outcome = Null
    /\ \E values \in DetectorSamples :
          detector' = [config |-> OutlierConfig((15 * MultiplierUnit) \div 10, 3),
                       values |-> values, runs |-> <<>>, others |-> <<>>]
    /\ UNCHANGED regVars
    /\ UNCHANGED evalVars
    /\ UNCHANGED <<service, batch, configManager>>

\* detectOutliers(values)
Detector_detectOutliers ==
    /\ detector # Null
    /\ Len(detector.runs) < MaxRuns
    /\ detector' = [detector EXCEPT !.runs =
                       Append(@, detectOutliersWith(detector.values, detector.config.min_samples,
                                                    detector.config.multiplier, MultiplierUnit))]
    /\ UNCHANGED regVars
    /\ UNCHANGED evalVars
    /\ UNCHANGED <<service, batch, configManager>>

\* adaptiveOutlierDetection(values)
Detector_adaptiveOutlierDetection ==
    /\ detector # Null
    /\ Len(detector.others) < MaxOtherCalls
    /\ \E distribution \in Distributions :
          LET r == adaptiveOutlierDetection(detector.values, detector.config, distribution)
          IN detector' = [detector EXCEPT !.config = r.config,
                                          !.others = Append(@, r.adaptedResult)]
    /\ UNCHANGED regVars
    /\ UNCHANGED evalVars
    /\ UNCHANGED <<service, batch, configManager>>

\* detectMultiSeriesOutliers({eopmu: values, total_score: values})
Detector_detectMultiSeriesOutliers ==
    /\ detector # Null
    /\ Len(detector.others) < MaxOtherCalls
    /\ LET seriesData == [name \in {"eopmu", "total_score"} |-> detector.values]
           r == detectMultiSeriesOutliers(seriesData, detector.config)
       IN detector' = [detector EXCEPT !.others = Append(@, r.seriesOutliers["total_score"])]
    /\ UNCHANGED regVars
    /\ UNCHANGED evalVars
    /\ UNCHANGED <<service, batch, configManager>>

NextDetector ==
    \/ Detector_New
    \/ Detector_detectOutliers
    \/ Detector_adaptiveOutlierDetection
    \/ Detector_detectMultiSeriesOutliers

SpecDetector == InitValidators /\ [][NextDetector]_vars

-----------------------------------------------------------------------------
(* Concurrent calls on one MultiLLMEvaluationService *)

\* MultiLLMEvaluationService.validateConfiguration: TRUE when it returns
Service_validateConfiguration(cfg) ==
    \E name \in ConfigNames : cfg.providers[name].enabled

\* EvaluationOrchestrator.validateConfiguration: TRUE when it returns
Orchestrator_validateConfiguration(map) == Len(getActiveProviders(map)) > 0

\* where a call goes when its initializeProviders has run to its end with the
\* registry map: initialize() returns or throws, evaluateChat goes on to
\* buildEvaluationRequest or throws
AfterInitialize(op, map) ==
    IF Len(map) > 0 /\ Orchestrator_validateConfiguration(map)
                    /\ Service_validateConfiguration(modelConfig)
    THEN (IF op = "initialize" THEN "returned" ELSE "building")
    ELSE "failed"

\* a call of initialize() or evaluateChat() up to its first await.  With
\* isInitialized set, initialize returns and evaluateChat goes on; otherwise
\* initialize -> orchestrator.initialize -> initializeProviders runs: the
\* registry is cleared and the loop runs up to the first validateProvider.
Service_Call(c, op) ==
    /\ pc = "idle"
    /\ detector = Null
    /\ service.callers[c].pc = "new"
    /\ IF service.isInitialized
       THEN /\ service' = [service EXCEPT !.callers[c].op = op,
                              !.callers[c].pc = IF op = "initialize" THEN "returned" ELSE "building"]
            /\ UNCHANGED providers
       ELSE LET cfg == modelConfig.providers
                j == NextAwaited(cfg, 1)
            IN /\ providers' = <<>>
               /\ IF j > Len(ConfigOrder)
                  THEN service' = [service EXCEPT !.initRuns = @ + 1,
                                      !.callers[c].op = op,
                                      !.callers[c].pc = "failed"]
                  ELSE service' = [service EXCEPT !.initRuns = @ + 1,
                                      !.callers[c].op = op,
                                      !.callers[c].pc = "awaiting",
                                      !.callers[c].idx = j,
                                      !.callers[c].pending = validateProvider(ConfigOrder[j], cfg[ConfigOrder[j]], env)]
    /\ UNCHANGED <<modelConfig, env, initPc, initCfg, initIdx, initPending, lastSelect>>
    /\ UNCHANGED evalVars
    /\ UNCHANGED <<detector, batch, configManager>>

\* the call's initializeProviders from one await to the next, or to its end,
\* where initialize() sets isInitialized unless a validation threw
Service_Resume(c) ==
    /\ service.callers[c].pc = "awaiting"
    /\ LET cfg == modelConfig.providers
           name == ConfigOrder[service.callers[c].idx]
           map == IF service.callers[c].pending THEN MapSet(providers, name, cfg[name])
                  ELSE providers
           j == NextAwaited(cfg, service.callers[c].idx + 1)
           after == AfterInitialize(service.callers[c].op, map)
       IN /\ providers' = map
          /\ IF j > Len(ConfigOrder)
             THEN service' = [service EXCEPT
                                 !.isInitialized = IF after = "failed" THEN @ ELSE TRUE,
                                 !.callers[c].pc = after,
                                 !.callers[c].idx = 0,
                                 !.callers[c].pending = FALSE]
             ELSE service' = [service EXCEPT
                                 !.callers[c].idx = j,
                                 !.callers[c].pending = validateProvider(ConfigOrder[j], cfg[ConfigOrder[j]], env)]
    /\ UNCHANGED <<modelConfig, env, initPc, initCfg, initIdx, initPending, lastSelect>>
    /\ UNCHANGED evalVars
    /\ UNCHANGED <<detector, batch, configManager>>

\* evaluateChat after buildEvaluationRequest: orchestrator.evaluateChat asks
\* the factory for its providers.  The call keeps what it was given and
\* whether another call's initializeProviders was between its clear and its end.
Service_Select(c) ==
    /\ service.callers[c].pc = "building"
    /\ service' = [service EXCEPT
                      !.callers[c].pc = "selected",
                      !.callers[c].selection =
                          [selected |-> getProvidersForEvaluation(modelConfig, providers),
                           rebuilding |-> \E d \in Callers \ {c} : service.callers[d].pc = "awaiting"]]
    /\ UNCHANGED regVars
    /\ UNCHANGED evalVars
    /\ UNCHANGED <<detector, batch, configManager>>

NextService ==
    \/ \E c \in Callers, op \in {"initialize", "evaluateChat"} : Service_Call(c, op)
    \/ \E c \in Callers : Service_Resume(c)
    \/ \E c \in Callers : Service_Select(c)

SpecService == Init /\ [][NextService]_vars

-----------------------------------------------------------------------------
(* One evaluateChatsBatch call *)

\* an option the caller left out
Undefined == -1

\* `option || fallback`: the fallback for an option left out and for 0
OptionOr(option, fallback) == IF option = Undefined \/ option = 0 THEN fallback ELSE option

DefaultBatchSize == 10
DefaultParallelism == 3
DefaultRetryAttempts == 2

\* most sessions in a batch, largest batchSize, parallelism and retryAttempts passed
MaxSessions == 2
MaxBatchSize == 2
MaxParallelism == 2
MaxRetryAttempts == 1

BatchOptions ==
    [batchSize : {Undefined} \cup 1..MaxBatchSize,
     parallelism : {Undefined} \cup 1..MaxParallelism,
     retryAttempts : {Undefined} \cup 0..MaxRetryAttempts,
     errorHandling : {"fail-fast", "continue", "retry"}]

\* batch.length of the batch that starts at session i (counted from 0)
BatchLength(b, i) == MinOf2(b.batchSize, b.total - i)

\* the index a worker goes on with after index j
NextIndexUnstrided(b, j) == j + 1

\* `j += parallelism`
NextIndex(b, j) == j + b.parallelism

\* a worker calls evaluateChat for the session at index j of the current batch
Evaluating(j) == [j |-> j, attempts |-> 0, pc |-> "evaluating"]

\* the batch that starts at session i: min(parallelism, batch.length) workers
\* run, each up to its first evaluateChat call
StartBatch(b, i) ==
    LET count == MinOf2(b.parallelism, BatchLength(b, i))
    IN [b EXCEPT !.i = i,
                 !.workers = [index \in 1..count |-> Evaluating(index - 1)],
                 !.evaluations = [session \in 1..b.total |->
                                     IF session \in (i + 1)..(i + count) THEN @[session] + 1
                                     ELSE @[session]]]

\* calculateBatchSummary
calculateBatchSummary(rs, errs) ==
    [total |-> Len(rs) + Len(errs), successful |-> Len(rs), failed |-> Len(errs)]

\* `await Promise.all(batchPromises)` and what follows it: once every worker of
\* the batch has returned, the next batch starts, or the call resolves
AfterPromiseAll(b) ==
    IF b.pc # "running" \/ \E w \in DOMAIN b.workers : b.workers[w].pc # "done" THEN b
    ELSE IF b.i + b.batchSize < b.total THEN StartBatch(b, b.i + b.batchSize)
    ELSE [b EXCEPT !.pc = "resolved", !.summary = calculateBatchSummary(b.results, b.errors)]

\* the for loop of worker w goes on to its next session, or ends
NextSession(b, w) ==
    LET j == NextIndex(b, b.workers[w].j)
    IN IF j < BatchLength(b, b.i)
       THEN [b EXCEPT !.workers[w] = Evaluating(j),
                      !.evaluations[b.i + j + 1] = @ + 1]
       ELSE [b EXCEPT !.workers[w].pc = "done"]

\* evaluateChatsBatch(chatSessions, options) up to its first await
EvaluateChatsBatch_Call ==
    /\ batch = Null
    /\ pc = "idle"
    /\ outcome = Null
    /\ detector = Null
    /\ service = NewService
    /\ \E total \in 0..MaxSessions, options \in BatchOptions :
          LET b == [options |-> options,
                    total |-> total,
                    batchSize |-> OptionOr(options.batchSize, DefaultBatchSize),
                    parallelism |-> OptionOr(options.parallelism, DefaultParallelism),
                    retryAttempts |-> OptionOr(options.retryAttempts, DefaultRetryAttempts),
                    i |-> 0,
                    workers |-> <<>>,
                    evaluations |-> [session \in 1..total |-> 0],
                    results |-> <<>>,
                    errors |-> <<>>,
                    completed |-> 0,
                    progress |-> <<>>,
                    pc |-> "running",
                    summary |-> Null]
          IN batch' = IF total = 0 THEN AfterPromiseAll(b) ELSE StartBatch(b, 0)
    /\ UNCHANGED regVars
    /\ UNCHANGED evalVars
    /\ UNCHANGED <<detector, service, configManager>>

\* the evaluateChat call of worker w resolves: the result is pushed, the
\* progress reported, and the worker goes on
Batch_EvaluationSucceeds(w) ==
    /\ batch # Null
    /\ w \in DOMAIN batch.workers
    /\ batch.workers[w].pc = "evaluating"
    /\ LET session == batch.i + batch.workers[w].j + 1
           pushed == [batch EXCEPT !.results = Append(@, session),
                                   !.completed = @ + 1,
                                   !.progress = Append(@, batch.completed + 1)]
       IN batch' = AfterPromiseAll(NextSession(pushed, w))
    /\ UNCHANGED regVars
    /\ UNCHANGED evalVars
    /\ UNCHANGED <<detector, service, configManager>>

\* the evaluateChat call of worker w rejects: the worker waits before its
\* next attempt, or records the error and goes on, or throws (fail-fast),
\* which rejects Promise.all and the call
Batch_EvaluationFails(w) ==
    /\ batch # Null
    /\ w \in DOMAIN batch.workers
    /\ batch.workers[w].pc = "evaluating"
    /\ LET session == batch.i + batch.workers[w].j + 1
           attempts == batch.workers[w].attempts + 1
           pushed == [batch EXCEPT !.workers[w].attempts = attempts,
                                   !.errors = Append(@, [session |-> session, attempts |-> attempts]),
                                   !.completed = @ + 1,
                                   !.progress = Append(@, batch.completed + 1)]
       IN IF attempts <= batch.retryAttempts
          THEN batch' = [batch EXCEPT !.workers[w].attempts = attempts,
                                      !.workers[w].pc = "delaying"]
          ELSE IF batch.options.errorHandling = "fail-fast"
          THEN batch' = [pushed EXCEPT !.workers[w].pc = "thrown",
                                       !.pc = IF @ = "running" THEN "rejected" ELSE @]
          ELSE batch' = AfterPromiseAll(NextSession(pushed, w))
    /\ UNCHANGED regVars
    /\ UNCHANGED evalVars
    /\ UNCHANGED <<detector, service, configManager>>

\* the delay before the next attempt of worker w is over: evaluateChat is
\* called again for the same session
Batch_DelayElapses(w) ==
    /\ batch # Null
    /\ w \in DOMAIN batch.workers
    /\ batch.workers[w].pc = "delaying"
    /\ batch' = [batch EXCEPT !.workers[w].pc = "evaluating",
                              !.evaluations[batch.i + batch.workers[w].j + 1] = @ + 1]
    /\ UNCHANGED regVars
    /\ UNCHANGED evalVars
    /\ UNCHANGED <<detector, service, configManager>>

NextBatch ==
    \/ EvaluateChatsBatch_Call
    \/ \E w \in 1..MaxParallelism + DefaultParallelism : Batch_EvaluationSucceeds(w)
    \/ \E w \in 1..MaxParallelism + DefaultParallelism : Batch_EvaluationFails(w)
    \/ \E w \in 1..MaxParallelism + DefaultParallelism : Batch_DelayElapses(w)

\* every evaluateChat call settles and every delay elapses
SpecBatch == InitValidators /\ [][NextBatch]_vars /\ WF_vars(NextBatch)

-----------------------------------------------------------------------------
(* The criteria cache of ConfigManager *)

\* latest modification time of a criteria file
MaxMtime == 3

\* the criteria JSON.parse makes of the file of version v as modified at mtime
Criteria(v, mtime) == [version |-> v, mtime |-> mtime]

\* what a getEvaluationCriteria call gave: the criteria it returned, or its throw
Returned(version, criteria) == [version |-> version, kind |-> "criteria", criteria |-> criteria]
Thrown(version) == [version |-> version, kind |-> "error", criteria |-> Null]

\* ConfigManager.getEvaluationCriteria(version): the manager after the call,
\* with what the call gave in `returned`
getEvaluationCriteria(cm, version) ==
    LET file == cm.files[version]
    IN IF ~file.exists THEN [cm EXCEPT !.returned = Thrown(version)]
       ELSE IF cm.criteria = Null \/ cm.lastUpdate[version] # file.mtime
       THEN (IF file.valid
             THEN [cm EXCEPT !.criteria = Criteria(version, file.mtime),
                             !.lastUpdate[version] = file.mtime,
                             !.returned = Returned(version, Criteria(version, file.mtime))]
             ELSE IF cm.criteria # Null
             THEN [cm EXCEPT !.returned = Returned(version, cm.criteria)]
             ELSE [cm EXCEPT !.returned = Thrown(version)])
       ELSE [cm EXCEPT !.returned = Returned(version, cm.criteria)]

\* ConfigManager.forceReload
forceReload(cm) == [cm EXCEPT !.criteria = Null, !.lastUpdate = [v \in Versions |-> 0]]

ConfigIdle ==
    /\ pc = "idle"
    /\ outcome = Null
    /\ detector = Null
    /\ service = NewService
    /\ batch = Null

GetEvaluationCriteria(version) ==
    /\ ConfigIdle
    /\ configManager' = getEvaluationCriteria(configManager, version)
    /\ UNCHANGED regVars
    /\ UNCHANGED evalVars
    /\ UNCHANGED <<detector, service, batch>>

ForceReload ==
    /\ ConfigIdle
    /\ configManager' = forceReload(configManager)
    /\ UNCHANGED regVars
    /\ UNCHANGED evalVars
    /\ UNCHANGED <<detector, service, batch>>

\* a criteria file is written (well-formed or not), or removed
WriteCriteriaFile(version) ==
    /\ ConfigIdle
    /\ configManager.files[version].mtime < MaxMtime
    /\ \E exists \in BOOLEAN, valid \in BOOLEAN :
          configManager' = [configManager EXCEPT !.files[version] =
                               CriteriaFile(exists, configManager.files[version].mtime + 1, valid)]
    /\ UNCHANGED regVars
    /\ UNCHANGED evalVars
    /\ UNCHANGED <<detector, service, batch>>

NextConfig ==
    \/ \E version \in Versions : GetEvaluationCriteria(version)
    \/ ForceReload
    \/ \E version \in Versions : WriteCriteriaFile(version)

SpecConfig == InitValidators /\ [][NextConfig]_vars

-----------------------------------------------------------------------------
(* Properties of one evaluation request *)

CallIndices == 1..Len(calls)
SucceededCalls == {i \in CallIndices : calls[i].state = "Success"}
FailedCalls == {i \in CallIndices : calls[i].state = "Failed"}

\* evaluateChat has ended after a dispatch
Ended == pc \in {"returned", "raised"} /\ Len(calls) > 0

\* the values of one score key among the calls that ended in Success
SucceededValues(key) ==
    {calls[i].scores[key] : i \in {j \in SucceededCalls : key \in DOMAIN calls[j].scores}}

\* a consolidated score lies between the least and the greatest value the
\* successful providers gave for its key, and is 3.0 when none gave one
FromSucceededOnly(score, key) ==
    IF SucceededValues(key) = {}
    THEN score = Fraction(DefaultScore, 1)
    ELSE /\ \E v \in SucceededValues(key) : v * score.den <= score.num
         /\ \E v \in SucceededValues(key) : score.num <= v * score.den

\* C1: when two or more providers were selected, at least one call ended in
\* Success and at least one in Failed, evaluateChat returns a ConsolidatedResult;
\* its providers list has, for every failed provider, an entry with
\* success = false and an error; each consolidated score comes from the scores
\* of the successful providers only.
C1_PartialFailureTolerance ==
    (Ended /\ Len(calls) >= 2 /\ SucceededCalls # {} /\ FailedCalls # {}) =>
        /\ pc = "returned"
        /\ outcome.kind = "result"
        /\ Len(outcome.providers) = Len(calls)
        /\ \A i \in FailedCalls :
              /\ outcome.providers[i].name = calls[i].name
              /\ outcome.providers[i].success = FALSE
              /\ outcome.providers[i].error # NoError
              /\ outcome.providers[i].scores = NoScores
        /\ FromSucceededOnly(outcome.scores.eopmu, "eopmu")
        /\ FromSucceededOnly(outcome.scores.munjang, "munjang")
        /\ FromSucceededOnly(outcome.scores.taedo, "taedo")
        /\ FromSucceededOnly(outcome.scores.chongjeom, "total_score")

\* three providers selected, exactly one of them failed, and the request ended
C1_Witness ==
    /\ Ended
    /\ Len(calls) = 3
    /\ Cardinality(FailedCalls) = 1
    /\ Cardinality(SucceededCalls) = 2
    /\ outcome.kind = "result"

\* C2: when the call of every selected provider ended in Failed, evaluateChat
\* raises an error and no ConsolidatedResult exists for the request.
C2_TotalFailurePropagation ==
    (Ended /\ FailedCalls = CallIndices) =>
        /\ pc = "raised"
        /\ outcome.kind = "error"

\* two or more providers were selected and all of them failed after an attempt
C2_Witness ==
    /\ Ended
    /\ Len(calls) >= 2
    /\ FailedCalls = CallIndices
    /\ \A i \in CallIndices : calls[i].attempt >= 1
    /\ pc = "raised"

\* what one step of the dispatch may do to the calls: a call that has ended
\* stays as it is, and at most one call moves
SiblingsUntouched ==
    (pc = "dispatched" /\ Len(calls') = Len(calls)) =>
        /\ \A i \in CallIndices : Terminal(calls[i]) => calls'[i] = calls[i]
        /\ \A i, j \in CallIndices :
              (calls'[i] # calls[i] /\ calls'[j] # calls[j]) => i = j

\* whether a call can take its next step depends on that call alone
CallsProgressAlone ==
    pc = "dispatched" =>
        \A i \in CallIndices :
            /\ calls[i].state = "Attempting" =>
                  ENABLED AttemptSucceeds(i) /\ ENABLED AttemptFails(i)
            /\ calls[i].state = "RetryWait" => ENABLED RetryDelayElapses(i)

\* C3: the dispatcher starts one call per selected provider; evaluateChat ends
\* only when every call is in Success or Failed; a failed call never changes or
\* blocks a sibling, and a call in RetryWait neither delays nor moves a sibling.
C3_WaitsForAllNoSiblingInterference ==
    /\ [](pc = "dispatched" =>
             /\ Len(calls) = Len(lastSelect.list)
             /\ \A i \in CallIndices : calls[i].name = lastSelect.list[i].name)
    /\ [](Ended => SucceededCalls \cup FailedCalls = CallIndices)
    /\ [](pc # "dispatched" /\ ~Ended => results = <<>> /\ Len(calls) = 0)
    /\ [](pc = "dispatched" => results = <<>> /\ outcome = Null)
    /\ []CallsProgressAlone
    /\ [][SiblingsUntouched]_vars

\* the first call to end ended in Failed, and a sibling that had waited in
\* RetryWait made its second attempt and ended in Success after that failure
C3_Witness ==
    /\ Ended
    /\ Len(calls) >= 2
    /\ Len(settled) = Len(calls)
    /\ calls[settled[1]].state = "Failed"
    /\ \E i \in SucceededCalls : calls[i].attempt = 2

\* C4: the provider results have exactly one entry per selected provider, in
\* the order of the selection, whatever the order in which the calls ended.
C4_ResultsInSelectionOrder ==
    Ended =>
        /\ Len(results) = Len(lastSelect.list)
        /\ \A i \in 1..Len(results) : results[i].name = lastSelect.list[i].name
        /\ \A i \in 1..Len(results) : results[i].success = (calls[i].state = "Success")

\* three calls ended in the reverse of the selection order
C4_Witness ==
    /\ Ended
    /\ Len(calls) = 3
    /\ settled = <<3, 2, 1>>
    /\ Len(results) = 3

\* the number of steps a call can still take at most: 0 when it has ended
Rank(c) ==
    IF c.state \in {"Success", "Failed"} THEN 0
    ELSE 2 * (c.max_attempts - c.attempt) + (IF c.state = "Attempting" THEN 1 ELSE 0)

\* the edges of the per-call state machine
RetryEdge(c, d) ==
    \/ /\ c.state = "Attempting"
       /\ d.state = "Success"
       /\ d.attempt = c.attempt
    \/ /\ c.state = "Attempting"
       /\ d.state = "RetryWait"
       /\ d.attempt = c.attempt
       /\ c.attempt < c.max_attempts
    \/ /\ c.state = "Attempting"
       /\ d.state = "Failed"
       /\ d.attempt = c.attempt
    \/ /\ c.state = "RetryWait"
       /\ d.state = "Attempting"
       /\ d.attempt = c.attempt + 1

RetryStateOk(c) ==
    /\ c.state \in {"Attempting", "RetryWait", "Success", "Failed"}
    /\ c.attempt >= 0
    /\ c.attempt <= c.max_attempts
    /\ c.state \in {"Attempting", "RetryWait", "Success"} => c.attempt >= 1
    /\ c.state = "RetryWait" =>
          /\ c.attempt < c.max_attempts
          /\ c.error # NoError
          /\ isRetryableError(c.name, c.error)
    /\ c.state = "Failed" => c.error # NoError

RetryStepOk ==
    /\ (Len(calls) = 0 /\ Len(calls') > 0) =>
          \A i \in 1..Len(calls') :
              \/ calls'[i].state = "Attempting" /\ calls'[i].attempt = 1
              \/ calls'[i].state = "Failed" /\ calls'[i].attempt = 0
                    /\ calls'[i].max_attempts < 1
    /\ (Len(calls) > 0) =>
          /\ Len(calls') = Len(calls)
          /\ \A i \in CallIndices :
                calls'[i] # calls[i] =>
                    /\ RetryEdge(calls[i], calls'[i])
                    /\ calls'[i].name = calls[i].name
                    /\ calls'[i].max_attempts = calls[i].max_attempts
                    /\ Rank(calls'[i]) < Rank(calls[i])

RetryableFailure(error) ==
    \/ error.httpStatus >= 500
    \/ error.httpStatus \in {429, 408}
    \/ error.httpStatus = 0 /\ "api key not set" \notin error.words

\* C6: while attempts remain, a failed attempt is retried if and only if the
\* failure is HTTP 5xx, 429, 408 or a transport error: a call waits for a retry
\* only after such a failure, and a call that failed with attempts left failed
\* on another kind of failure.
C6_RetriedIffRetryableFailure ==
    \A i \in CallIndices :
        /\ calls[i].state = "RetryWait" => RetryableFailure(calls[i].error)
        /\ (calls[i].state = "Failed" /\ calls[i].attempt >= 1
                /\ calls[i].attempt < calls[i].max_attempts) =>
              ~RetryableFailure(calls[i].error)

InRange(v) == v >= MinScore /\ v <= MaxScore

\* an answer that is no JSON, lacks a section, or holds a score outside 1.0-5.0
Malformed(response) ==
    \/ ~response.parses
    \/ \E k \in ScoreSections : ~response.sections[k].present
    \/ \E k \in ScoreSections : ~InRange(response.sections[k].subtotal)
    \/ response.total_score.present /\ ~InRange(response.total_score.value)

\* C7: a provider whose answer cannot be parsed, lacks a section or holds a
\* score outside 1.0-5.0 is a failed provider: its call does not end in Success,
\* its result entry has success = false and it contributes no scores.
C7_MalformedAnswerIsFailure ==
    \A i \in CallIndices :
        (calls[i].response # NoResponse /\ Malformed(calls[i].response)) =>
            /\ calls[i].state # "Success"
            /\ calls[i].scores = NoScores
            /\ (Ended /\ Len(results) = Len(calls)) => ~results[i].success

FractionInRange(f) == MinScore * f.den <= f.num /\ f.num <= MaxScore * f.den

\* C8: every consolidated score of a returned ConsolidatedResult, the three
\* category scores and the total, lies in [1.0, 5.0].
C8_ConsolidatedScoresInRange ==
    pc = "returned" =>
        /\ FractionInRange(outcome.scores.eopmu)
        /\ FractionInRange(outcome.scores.munjang)
        /\ FractionInRange(outcome.scores.taedo)
        /\ FractionInRange(outcome.scores.chongjeom)

-----------------------------------------------------------------------------
(* Properties of the provider registry *)

EnabledRegistered == SelectSeq(providers, LAMBDA e : e.config.enabled)

\* C9: with multi-judge mode on and at least min_providers active providers the
\* selection is the first min_providers of them in registry order; otherwise,
\* with the fallback permitted, it is the first active provider alone;
\* otherwise it fails.  A selection that does not fail is never empty.  (With
\* no active provider at all a failure is accepted in every mode.)
C9_SelectionPolicy ==
    lastSelect # Null =>
        LET active == EnabledRegistered
            mode == modelConfig.evaluation_mode
        IN /\ lastSelect.status = "ok" => Len(lastSelect.list) > 0
           /\ Len(active) = 0 => lastSelect.status = "error"
           /\ Len(active) > 0 =>
                 IF mode.multi_llm /\ Len(active) >= mode.min_providers
                 THEN /\ lastSelect.status = "ok"
                      /\ lastSelect.list = SubSeq(active, 1, mode.min_providers)
                 ELSE IF mode.fallback_to_single
                 THEN /\ lastSelect.status = "ok"
                      /\ lastSelect.list = <<active[1]>>
                 ELSE lastSelect.status = "error"

\* the provider entries of the configuration the build read that are enabled
\* while the environment lacks their credential
MissingCredential == {name \in ConfigNames : initCfg[name].enabled /\ ApiKeyOf(name) \notin env}

Eligible(name) ==
    /\ initCfg[name].enabled
    /\ name \in KnownProviders
    /\ initCfg[name].model
    /\ initCfg[name].temperature >= 0 /\ initCfg[name].temperature <= MaxTemperature
    /\ initCfg[name].max_tokens > 0
    /\ ApiKeyOf(name) \in env

EligibleNames == SelectSeq(ConfigOrder, Eligible)

-----------------------------------------------------------------------------
(* Properties of consolidation and the validators *)

\* one list of results has been consolidated
Consolidated == outcome # Null /\ outcome.kind = "consolidated"

\* C11: with three successful providers reporting the total scores 4.6, 4.5
\* and 1.2 and the multiplier 1.5, the outlier detection flags 1.2 (and nothing
\* else) and the consolidated total score is the mean of 4.6 and 4.5, 4.55.
C11_EndToEndExample ==
    (Consolidated /\ outcome.values = <<46, 45, 12>> /\ outcome.config.multiplier = 15) =>
        /\ outcome.detected.outliers = <<12>>
        /\ Len(outcome.outliers) = 1
        /\ 2 * outcome.consolidated["total_score"].num
              = 91 * outcome.consolidated["total_score"].den

\* the values of a sample other than the one at position e
OthersOf(sample, e) ==
    [k \in 1..(Len(sample) - 1) |-> sample[IF k < e THEN k ELSE k + 1]]

MinOf(s) == CHOOSE v \in {s[k] : k \in DOMAIN s} : \A k \in DOMAIN s : v <= s[k]
MaxOf(s) == CHOOSE v \in {s[k] : k \in DOMAIN s} : \A k \in DOMAIN s : s[k] <= v

\* the value at position e lies below (above) the band of the other values,
\* further from it than one and a half times the width of the band
ExtremeBelow(sample, e) ==
    LET others == OthersOf(sample, e)
    IN /\ sample[e] < MinOf(others)
       /\ 2 * (MinOf(others) - sample[e]) > 3 * (MaxOf(others) - MinOf(others))
ExtremeAbove(sample, e) ==
    LET others == OthersOf(sample, e)
    IN /\ sample[e] > MaxOf(others)
       /\ 2 * (sample[e] - MaxOf(others)) > 3 * (MaxOf(others) - MinOf(others))

\* a consolidated sample of five or more finite values, all but the one at
\* position e within a band, and that one well outside the band
SingleExtreme(e) ==
    /\ Consolidated
    /\ Len(outcome.values) >= 5
    /\ e \in 1..Len(outcome.values)
    /\ \A k \in 1..Len(outcome.values) : IsFinite(outcome.values[k])
    /\ ExtremeBelow(outcome.values, e) \/ ExtremeAbove(outcome.values, e)

\* both outlier detections flag the value at position e of the sample
ExtremeClassified(e) ==
    /\ \E k \in 1..Len(outcome.detected.outlierIndices) :
          outcome.detected.outlierIndices[k] = e - 1
    /\ \E k \in 1..Len(outcome.outliers) :
          outcome.outliers[k] = IF ExtremeBelow(outcome.values, e)
                                THEN 0 ELSE Len(outcome.values) - 1

\* the fraction is the mean of the values of s at the positions in S
IsMeanOf(f, s, S) ==
    LET picked == SelectSeq(Indices(Len(s)), LAMBDA k : k \in S)
    IN f.num * Cardinality(S) = f.den * SumSeq([k \in 1..Len(picked) |-> s[picked[k]]])

\* C12 as stated: in a sample of n >= 5 values with n-1 of them in a narrow
\* band and one far outside it, the far value is classified as an outlier and
\* the consolidated total score is the mean of the other n-1 values.
C12_MeanOfAllOthers ==
    \A e \in 1..MaxSampleSize :
        SingleExtreme(e) =>
            /\ ExtremeClassified(e)
            /\ IsMeanOf(outcome.consolidated["total_score"], outcome.values,
                        (1..Len(outcome.values)) \ {e})

\* C12 amended: in such a sample the far value is classified as an outlier
\* and takes no part in the consolidated total score, which is the mean of
\* some of the other n-1 values (those that the fences keep).
C12_SingleOutlierInsensitivity ==
    \A e \in 1..MaxSampleSize :
        SingleExtreme(e) =>
            /\ ExtremeClassified(e)
            /\ \E S \in SUBSET ((1..Len(outcome.values)) \ {e}) :
                  /\ S # {}
                  /\ IsMeanOf(outcome.consolidated["total_score"], outcome.values, S)

\* 4.0, 4.0, 1.2, 4.0, 4.0 consolidated to 4.0
C12_Witness ==
    /\ SingleExtreme(3)
    /\ outcome.values = <<40, 40, 12, 40, 40>>
    /\ outcome.consolidated["total_score"].num = 40 * outcome.consolidated["total_score"].den

-----------------------------------------------------------------------------
(* Properties of a reload that overlaps with evaluations *)

\* a step of initializeProviders (the one reloadConfiguration awaits)
RebuildStep == <<providers, initPc, initIdx, initCfg>>' # <<providers, initPc, initIdx, initCfg>>

\* C13: a reload is atomic for the evaluations it overlaps with: from the
\* start of a rebuild up to the step that completes it, no step changes what
\* getProvidersForEvaluation answers, so that every selection sees the whole
\* registry from before the reload or the whole registry after it, and none
\* fails because a reload is in progress.
C13_HotReloadIsAtomic ==
    [][(RebuildStep /\ initPc' = "awaiting") =>
          getProvidersForEvaluation(modelConfig', providers')
              = getProvidersForEvaluation(modelConfig, providers)]_vars

-----------------------------------------------------------------------------
(* Properties of the request deadline *)

\* C14: the request's deadline bounds the evaluation: in every step that
\* leaves the deadline elapsed, every provider call has ended, the calls that
\* were still pending end as failures, and no call makes a further attempt.
C14_DeadlineBoundsEvaluation ==
    [][deadlineElapsed' =>
          \A i \in 1..Len(calls') :
              /\ calls'[i].state \in {"Success", "Failed"}
              /\ calls[i].state \notin {"Success", "Failed"} => calls'[i].state = "Failed"
              /\ calls'[i].attempt = calls[i].attempt]_vars

-----------------------------------------------------------------------------
(* Properties of the error of a total failure *)

\* C15: when every selected provider failed, the error evaluateChat raises is
\* an aggregate: it carries one entry per failed provider, with the provider's
\* name and the reason of its failure.
C15_AggregateErrorListsFailures ==
    (Ended /\ pc = "raised" /\ FailedCalls = CallIndices) =>
        /\ "errors" \in DOMAIN outcome
        /\ \A i \in FailedCalls :
              \E k \in DOMAIN outcome.errors :
                  outcome.errors[k] = [name |-> calls[i].name, reason |-> calls[i].error]

-----------------------------------------------------------------------------
(* Properties of the validation of a request *)

\* the request carries a transcript and weights that sum to 1.0 within 0.01
ValidRequest(request) ==
    LET sum == request.criteria.eopmu + request.criteria.munjang + request.criteria.taedo
    IN /\ Len(request.session.messages) > 0
       /\ 99 <= sum /\ sum <= 101

\* C16: evaluateChat rejects a request without messages, and a request whose
\* category weights do not sum to 1.0 within 0.01, before any provider call
\* is started.
C16_InvalidRequestRejectedBeforeDispatch ==
    [][\A request \in Requests :
          (EvaluateChat_Start(request) /\ ~ValidRequest(request)) =>
              (pc' = "raised" /\ calls' = <<>>)]_vars

-----------------------------------------------------------------------------
(* Properties of the consolidated evidence *)

EvidenceLists == {"positive", "negative", "quotes"}

Entries(list) == {list[k] : k \in DOMAIN list}

\* the evidence in the EvaluationResult of the call at position i
ReportedEvidence(i) == resultEvidence(parseResponse(calls[i].response))

\* C17: each evidence list of a ConsolidatedResult holds exactly the entries
\* that the successful providers reported in that list, each entry once.
C17_EvidenceIsUnionOfReports ==
    pc = "returned" =>
        \A list \in EvidenceLists :
            /\ Entries(outcome.evidence[list])
                  = UNION {Entries(ReportedEvidence(i)[list]) : i \in SucceededCalls}
            /\ Cardinality(Entries(outcome.evidence[list])) = Len(outcome.evidence[list])

-----------------------------------------------------------------------------
(* Properties of the consistency validation *)

\* a list of results has been given to the consistency validations
ConsistencyValidated == outcome # Null /\ outcome.kind = "consistency"

FewerThanTwoSuccesses == Cardinality({i \in 1..Len(results) : results[i].success}) < 2

SingleProviderReport(report) ==
    /\ report.status = "SINGLE_PROVIDER"
    /\ report.consistency.num = report.consistency.den

\* C18: whenever fewer than two of the results given to the
\* consistency validation are successful, however many failed ones the list
\* holds, the report is the single-provider report with consistency 1.0.
C18_FewerThanTwoSuccessesIsSingleProvider ==
    (ConsistencyValidated /\ FewerThanTwoSuccesses) =>
        SingleProviderReport(outcome.report)

-----------------------------------------------------------------------------
(* Properties of the confidence *)

ConfidencesCalculated == outcome # Null /\ outcome.kind = "confidence"

FractionLe(a, b) == a.num * b.den <= b.num * a.den

\* the confidence, a function of the outlier count, never grows with it
NonIncreasing(confidence) ==
    \A a, b \in DOMAIN confidence : a < b => FractionLe(confidence[b], confidence[a])

\* C19: with the consistency, the number of results and the weights (none of
\* them negative) fixed, a larger outlier count never gives a larger
\* confidence, be it computed by the orchestrator's calculateConfidence or by
\* ConfidenceCalculator.calculateConfidence.
C19_MonotonicConfidence ==
    ConfidencesCalculated =>
        /\ NonIncreasing(outcome.orchestrator)
        /\ NonIncreasing(outcome.calculator)

\* three results, weights 0.5 / 0.3 / 0.2, consistency 0.8: one outlier more
\* lowers both confidences, below 1 and above 0
C19_Witness ==
    /\ ConfidencesCalculated
    /\ outcome.totalResults = 3
    /\ outcome.consistency = 8
    /\ outcome.factors.outlier_weight = 3
    /\ ~FractionLe(outcome.orchestrator[0], outcome.orchestrator[1])
    /\ ~FractionLe(outcome.calculator[1], outcome.calculator[2])
    /\ outcome.calculator[3].num > 0

-----------------------------------------------------------------------------
(* Properties of the degenerate cases of the consolidation *)

\* every value of the sample lies outside the fences that the consolidation
\* draws around its quartiles
AllOutside(values) ==
    LET sorted == SortAsc(values)
        n == Len(sorted)
        q1 == sorted[(n \div 4) + 1]
        q3 == sorted[((3 * n) \div 4) + 1]
        iqr == JsSub(q3, q1)
        lower2 == JsSub(JsScale(2, q1), JsScale(3, iqr))
        upper2 == JsAdd(JsScale(2, q3), JsScale(3, iqr))
    IN \A k \in 1..n :
          ~(JsLe(lower2, JsScale(2, sorted[k])) /\ JsLe(JsScale(2, sorted[k]), upper2))

\* C20: whenever at least one successful provider reported a number for the
\* total score, its consolidated value is a defined, finite number; and when
\* every value of a sample of three or more is classified as an outlier, it
\* is the median of the sample.
C20_DegenerateFallback ==
    Consolidated =>
        LET total == outcome.consolidated["total_score"]
            n == Len(outcome.values)
        IN /\ IsFinite(total.num)
           /\ total.den > 0
           /\ (n >= 3 /\ AllOutside(outcome.values)) =>
                  total = Fraction(SortAsc(outcome.values)[(n \div 2) + 1], 1)

-----------------------------------------------------------------------------
(* Properties of one OutlierDetector object *)

\* C21: the detectOutliers runs on one sample all return the same bounds,
\* outliers and inliers, whatever adaptiveOutlierDetection or
\* detectMultiSeriesOutliers call ran in between, and no call changes the
\* sample or the detector's multiplier.
C21_OutlierIdempotence ==
    [][detector' # Null =>
          /\ \A i, j \in DOMAIN detector'.runs : detector'.runs[i] = detector'.runs[j]
          /\ detector # Null =>
                /\ detector'.values = detector.values
                /\ detector'.config.multiplier = detector.config.multiplier]_vars

\* two runs around an adaptive detection that widened the fences and so
\* flagged fewer values than the runs did
C21_Witness ==
    /\ detector # Null
    /\ Len(detector.runs) = 2
    /\ Len(detector.others) = 1
    /\ Len(detector.runs[1].outliers) > 0
    /\ Len(detector.others[1].outliers) < Len(detector.runs[1].outliers)

-----------------------------------------------------------------------------
(* Properties of a reload that fails *)

\* C23: a reload that fails leaves the registry as it was: in a step that
\* takes a completed registry to a failed (re)initialisation, the registered
\* providers do not change, so that later evaluations still have them.
C23_FailedReloadKeepsProviders ==
    [][(initPc = "done" /\ initPc' = "failed") => providers' = providers]_vars

-----------------------------------------------------------------------------
(* Properties of concurrent calls on the service *)

\* C22: however many initialize and evaluateChat calls overlap on a service
\* that is not initialized, initializeProviders (which clears and rebuilds
\* the registry) has run at most once, and no evaluation took its providers
\* from the registry while another call's initialization was rebuilding it.
C22_InitializationRunsOnce ==
    /\ service.initRuns <= 1
    /\ \A c \in Callers :
          service.callers[c].pc = "selected" => ~service.callers[c].selection.rebuilding

-----------------------------------------------------------------------------
(* Properties of the confidence calculations' inputs *)

\* C24: the sample size given to a confidence calculation is the number of
\* successful provider results, failed results are not counted: both in
\* consolidateResults and in validateEvaluationResults.
C24_SampleSizeCountsSuccesses ==
    (outcome # Null /\ outcome.kind = "validation") =>
        /\ outcome.consolidated # Null =>
              outcome.consolidated.totalResults = Len(Successful(results))
        /\ outcome.validated # Null =>
              outcome.validated.totalResults = Len(Successful(results))

-----------------------------------------------------------------------------
(* Properties of the reported outlier positions *)

\* C25: every index reported as an outlier is the position, in the sample in
\* provider order, of the value that was found outside the fences: for the
\* detector's outlierIndices (whose k-th index goes with its k-th outlier)
\* and for the outliers list of consolidateResults (found in the sorted scores).
C25_OutlierIndicesAreOriginalPositions ==
    (outcome # Null /\ outcome.kind = "consolidated") =>
        /\ \A k \in DOMAIN outcome.detected.outlierIndices :
              outcome.values[outcome.detected.outlierIndices[k] + 1]
                  = outcome.detected.outliers[k]
        /\ \A k \in DOMAIN outcome.outliers :
              outcome.values[outcome.outliers[k] + 1]
                  = SortAsc(outcome.values)[outcome.outliers[k] + 1]

-----------------------------------------------------------------------------
(* Properties of a sample of three values *)

-----------------------------------------------------------------------------
(* Properties of a batch evaluation *)

\* the number of entries of results and of errors that are session's
OutcomesOf(b, session) ==
    Cardinality({k \in DOMAIN b.results : b.results[k] = session})
        + Cardinality({k \in DOMAIN b.errors : b.errors[k].session = session})

BatchContinues == batch # Null /\ batch.options.errorHandling # "fail-fast"

BatchResolved == batch # Null /\ batch.pc = "resolved"

\* no session has two outcomes, and a resolved call has one for each
OneOutcomePerSession ==
    BatchContinues =>
        /\ \A session \in 1..batch.total : OutcomesOf(batch, session) <= 1
        /\ batch.pc = "resolved" =>
              /\ \A session \in 1..batch.total : OutcomesOf(batch, session) = 1
              /\ Len(batch.results) + Len(batch.errors) = batch.total
              /\ batch.summary.total = batch.total
              /\ batch.total > 0 => batch.progress[Len(batch.progress)] = batch.total

C28_FailFastStopsTheBatch ==
    [][(batch # Null /\ batch.pc = "rejected") =>
          /\ batch'.evaluations = batch.evaluations
          /\ batch'.results = batch.results
          /\ batch'.errors = batch.errors
          /\ batch'.completed = batch.completed
          /\ batch'.progress = batch.progress]_vars

\* C29: a session is evaluated retryAttempts + 1 times at most, for every
\* retryAttempts >= 0 the caller passes (once for retryAttempts = 0), and
\* never again after one of its evaluations succeeded.
C29_AtMostRetryAttemptsPlusOne ==
    [][(batch' # Null /\ batch'.options.retryAttempts # Undefined) =>
          \A session \in 1..batch'.total :
              /\ batch'.evaluations[session] <= batch'.options.retryAttempts + 1
              /\ (batch # Null /\ \E k \in DOMAIN batch.results : batch.results[k] = session)
                    => batch'.evaluations[session] = batch.evaluations[session]]_vars

-----------------------------------------------------------------------------
(* Properties of the criteria cache *)

\* C30: whatever getEvaluationCriteria calls, file changes and forceReload
\* calls came before, the criteria a getEvaluationCriteria(v) call returns
\* are criteria of version v, never the cached criteria of another version.
C30_CriteriaOfTheVersionAsked ==
    (configManager.returned # Null /\ configManager.returned.kind = "criteria") =>
        configManager.returned.criteria.version = configManager.returned.version

====
